---------------------------- MODULE Spec2Model ----------------------------
(***************************************************************************)
(* Agent orchestration and secure tool execution of dublyo/dockerizer      *)
(* (package internal/agent): the Agent Loop (Agent.Run / runAttempt), the  *)
(* Tool Dispatcher, the Path Sandbox (securePath) with the file_write      *)
(* tool, and the Command Validator of the shell tool.                      *)
(*                                                                         *)
(* Texts (instructions, error messages, command lines, paths) are          *)
(* sequences: a text built by fmt.Sprintf is the concatenation of its      *)
(* pieces, a command line or a path is a sequence of one-character         *)
(* strings.                                                                *)
(***************************************************************************)
EXTENDS Integers, Sequences, FiniteSets, TLC

VARIABLES
    \* ---- Agent (part_019:787-794) and the state of one Run
    cfgMaxAttempts,   \* AgentConfig.MaxAttempts handed to New
    maxAttempts,      \* Agent.maxAttempts
    aInspectors,      \* Agent.inspectors
    tdInspectors,     \* ToolDispatcher.inspectors of Agent.tools
    events,           \* Agent.events, the buffered channel
    received,         \* how many events were received from Events()
    pc,               \* position of Run / runAttempt
    attempt,          \* loop variable of Run
    instructions,     \* the instructions variable of Run
    cur,              \* the Attempt under construction in runAttempt
    result,           \* the Result of Run
    cancelled,        \* ctx.Done() is closed
    workDir,          \* files of the working directory: name -> content
    \* ---- observation of the Run (what a spy provider / spy tool would see)
    genCalls,         \* instructions of each provider.Generate call
    fsLog,            \* every mutation of the working directory
    toolCalls,        \* every ToolDispatcher.Execute call
    stepLog,          \* every step completed: <<attempt number, step, succeeded>>
    \* ---- the filesystem and the file_write tool
    fs,               \* absolute path -> node (dir, file or symlink)
    fw,               \* the last FileWriteTool.Execute call and its outcome
    fr,               \* the last FileReadTool.Execute call and its outcome
    \* ---- the shell tool
    shCmd,            \* the command line handed to ShellTool.Execute
    shPc,             \* "called" before the call is handled, "returned" after
    shErr,            \* the error ShellTool.Execute returned, NoError if none
    procs,            \* the command lines handed to sh -c
    \* ---- a ToolDispatcher of its own, with the inspectors SetInspectors gave it
    tdLog,            \* every Execute call of this dispatcher and its outcome
    tdFiles,          \* files of its working directory: path -> content
    \* ---- a RepetitionInspector
    repCfg,           \* the maxReps handed to NewRepetitionInspector
    repCall,          \* the (tool, args) call submitted to it again and again
    repMaxReps,       \* RepetitionInspector.maxReps
    repHistory,       \* RepetitionInspector.history
    repLog,           \* the outcome of each Inspect call: approved or not
    \* ---- one DockerRunTool.Execute call
    dr,               \* its position, the commands it issued and what it returned
    \* ---- one recipe.Executor.Execute call
    rc                \* the recipe, the position in it and the ExecutionResult

agentVars == <<cfgMaxAttempts, maxAttempts, aInspectors, tdInspectors, events, received,
               pc, attempt, instructions, cur, result, cancelled, workDir,
               genCalls, fsLog, toolCalls, stepLog>>

pathVars == <<fs, fw, fr>>
shellVars == <<shCmd, shPc, shErr, procs>>
dispatchVars == <<tdLog, tdFiles>>
repVars == <<repCfg, repCall, repMaxReps, repHistory, repLog>>
runToolVars == <<dr>>
recipeVars == <<rc>>

\* what each part of the model leaves alone
nonAgentVars == <<pathVars, shellVars, dispatchVars, repVars, runToolVars, recipeVars>>
nonPathVars == <<agentVars, shellVars, dispatchVars, repVars, runToolVars, recipeVars>>
nonShellVars == <<agentVars, pathVars, dispatchVars, repVars, runToolVars, recipeVars>>
nonDispatchVars == <<agentVars, pathVars, shellVars, repVars, runToolVars, recipeVars>>
nonRepVars == <<agentVars, pathVars, shellVars, dispatchVars, runToolVars, recipeVars>>
nonRunToolVars == <<agentVars, pathVars, shellVars, dispatchVars, repVars, recipeVars>>
nonRecipeVars == <<agentVars, pathVars, shellVars, dispatchVars, repVars, runToolVars>>

-----------------------------------------------------------------------------
(* Bounds of the model *)

\* AgentConfig.MaxAttempts is drawn from 0..MaxCfgAttempts
MaxCfgAttempts == 3
\* options after the program name of a docker command line
MaxOpts == 2
\* words after the program name of a docker-compose command line
MaxWords == 3
\* the largest maxReps handed to NewRepetitionInspector
MaxThreshold == 101
\* Inspect calls made on one RepetitionInspector
MaxRepCalls == 103
\* Inspect calls of the watched call among other calls
MaxWatchedCalls == 3
\* other calls made on the RepetitionInspector between the watched ones
MaxOtherCalls == 100
\* steps of a recipe
MaxSteps == 2
\* the largest retries of a step
MaxRetries == 2
\* the largest cfg.MaxAttempts of an Agent whose channel is observed
MaxEmitAttempts == 1
\* events the observer receives while the Run goes on
MaxReceives == 2
\* Runs made on the Agent before the one observed
MaxEarlierRuns == 25
\* Execute calls made on a dispatcher of its own
MaxDispatchCalls == 1
\* symlinks planted below the working-directory root
MaxLinks == 2
\* symlinks followed while resolving one path before the walk gives up
\* ("too many links"); every chain of MaxLinks links is shorter
MaxHops == 3

(* Program constants *)

\* New: cfg.MaxAttempts == 0 is replaced by 5
DefaultMaxAttempts == 5
\* New: make(chan AgentEvent, 100)
EventCap == 100
\* NewRepetitionInspector: maxReps == 0 is replaced by 3
DefaultMaxReps == 3
\* RepetitionInspector.Inspect: the history is cut when longer than 100
HistoryCap == 100
\* RepetitionInspector.Inspect: the 50 oldest entries are dropped
HistoryDrop == 50
\* DockerRunTool.Execute: the seconds waited when no int timeout is given
DefaultRunTimeout == 30

-----------------------------------------------------------------------------
(* Texts *)

\* strings.Contains on texts: sub occurs in s as a contiguous run
Contains(s, sub) ==
    \E i \in 0..(Len(s) - Len(sub)) :
        \A j \in 1..Len(sub) : s[i + j] = sub[j]

\* strings.HasPrefix
HasPrefix(s, p) ==
    /\ Len(p) <= Len(s)
    /\ \A j \in 1..Len(p) : s[j] = p[j]

\* strings.HasSuffix
HasSuffix(s, p) ==
    /\ Len(p) <= Len(s)
    /\ \A j \in 1..Len(p) : s[Len(s) - Len(p) + j] = p[j]

\* a nil error / an empty Go string
NoError == <<>>

\* unicode.IsSpace on the characters of the model
IsSpace(c) == c \in {" ", "\t", "\n", "\r"}

\* strings.TrimSpace
RECURSIVE TrimLeft(_)
TrimLeft(s) == IF s # <<>> /\ IsSpace(Head(s)) THEN TrimLeft(Tail(s)) ELSE s
RECURSIVE TrimRight(_)
TrimRight(s) ==
    IF s # <<>> /\ IsSpace(s[Len(s)]) THEN TrimRight(SubSeq(s, 1, Len(s) - 1)) ELSE s
TrimSpace(s) == TrimRight(TrimLeft(s))

\* strings.Split(s, sep) for a one-character separator: piece is the piece
\* being read
RECURSIVE SplitAcc(_, _, _)
SplitAcc(s, sep, piece) ==
    IF s = <<>> THEN <<piece>>
    ELSE IF Head(s) = sep THEN <<piece>> \o SplitAcc(Tail(s), sep, <<>>)
    ELSE SplitAcc(Tail(s), sep, Append(piece, Head(s)))
Split(s, sep) == SplitAcc(s, sep, <<>>)

\* strings.Fields: the maximal runs of non-space characters
RECURSIVE FieldsAcc(_, _)
FieldsAcc(s, piece) ==
    IF s = <<>> THEN (IF piece = <<>> THEN <<>> ELSE <<piece>>)
    ELSE IF IsSpace(Head(s))
    THEN (IF piece = <<>> THEN <<>> ELSE <<piece>>) \o FieldsAcc(Tail(s), <<>>)
    ELSE FieldsAcc(Tail(s), Append(piece, Head(s)))
Fields(s) == FieldsAcc(s, <<>>)

\* strings.Join(parts, sep)
RECURSIVE Join(_, _)
Join(parts, sep) ==
    IF parts = <<>> THEN <<>>
    ELSE IF Len(parts) = 1 THEN parts[1]
    ELSE parts[1] \o sep \o Join(Tail(parts), sep)

\* index of the first occurrence of character c in s, 0 if none
FirstIndex(s, c) ==
    IF \E i \in 1..Len(s) : s[i] = c
    THEN CHOOSE i \in 1..Len(s) : s[i] = c /\ \A j \in 1..(i - 1) : s[j] # c
    ELSE 0

\* strings.SplitN(s, "=", 2)[1]: what follows the first "="
AfterFirstEq(s) == SubSeq(s, FirstIndex(s, "=") + 1, Len(s))

\* strings.TrimPrefix
TrimPrefix(s, p) == IF HasPrefix(s, p) THEN SubSeq(s, Len(p) + 1, Len(s)) ELSE s

-----------------------------------------------------------------------------
(* Agent Loop: types *)

\* the four canonical files of WriteDockerFiles
FileNames == {"Dockerfile", "docker-compose.yml", ".dockerignore", ".env.example"}

\* a file that does not exist in the working directory
NoFile == <<"<absent>">>

\* a nil *Output
NoOutput == "<nil>"

\* the Dockerfile in the working directory before the Run, and the one the
\* provider generates; a content is a sequence of one-character strings
Dockerfile0 == <<"F", "R", "O", "M", " ", "a">>
Dockerfile1 == <<"F", "R", "O", "M", " ", "b">>

\* ai.Response values the provider may return; <<>> is an empty field
Responses ==
    { [Dockerfile |-> d, DockerCompose |-> c, Dockerignore |-> <<>>, EnvExample |-> <<>>] :
        d \in {<<>>, Dockerfile1}, c \in {<<>>} }

\* the Output runAttempt builds from a Response (part_019:908-913)
OutputOf(r) ==
    [Dockerfile |-> r.Dockerfile, DockerCompose |-> r.DockerCompose,
     Dockerignore |-> r.Dockerignore, EnvExample |-> r.EnvExample]

\* the files map of WriteDockerFiles (part_019:175-180)
FilesOf(output) ==
    [n \in FileNames |->
        CASE n = "Dockerfile"         -> output.Dockerfile
          [] n = "docker-compose.yml" -> output.DockerCompose
          [] n = ".dockerignore"      -> output.Dockerignore
          [] n = ".env.example"       -> output.EnvExample]

\* the caller's initial instructions
InitialInstructions == <<"initial instructions">>

\* err.Error() of a failed provider.Generate
GenErrors(c) == IF c THEN {<<"context canceled">>} ELSE {<<"provider error">>}

\* error of a failed os.WriteFile of file n
WriteError(n) == <<"failed to write ", n, ": ", "permission denied">>

\* tools registered by NewToolDispatcher (part_019:131-141)
RegisteredTools ==
    {"docker_build", "docker_run", "docker_logs", "docker_stop", "file_write",
     "file_read", "shell", "dockerizer_analyze", "dockerizer_generate"}

\* a fresh Attempt (part_019:894-897)
\* an Attempt that does not carry its number
NewAttempt_Unnumbered(n) ==
    [Number |-> 0, Success |-> FALSE, Error |-> NoError, Output |-> NoOutput,
     BuildLog |-> "", TestLog |-> ""]

NewAttempt(n) ==
    [Number |-> n, Success |-> FALSE, Error |-> NoError, Output |-> NoOutput,
     BuildLog |-> "", TestLog |-> ""]

-----------------------------------------------------------------------------
(* Inspectors (internal/agent/inspectors.go) *)

\* the denylist of SecurityInspector.Inspect, each text a sequence of
\* one-character strings
DangerousCommands ==
    { <<"r","m"," ","-","r","f"," ","/">>,
      <<"r","m"," ","-","r","f"," ","/","*">>,
      <<"d","d"," ","i","f","=">>,
      <<"m","k","f","s">>,
      <<":","(",")","{"," ",":","|",":","&"," ","}",";",":">>,
      <<">"," ","/","d","e","v","/","s","d">>,
      <<"c","h","m","o","d"," ","-","R"," ","7","7","7"," ","/">> }

\* args[k].(T) with its ok flag: the field when present, else the zero value
Arg(args, k, zero) == IF k \in DOMAIN args THEN args[k] ELSE zero

\* SecurityInspector.Inspect: NoError when it approves
SecurityInspect(tool, args) ==
    IF tool = "shell" /\ \E d \in DangerousCommands : Contains(Arg(args, "command", <<>>), d)
    THEN <<"blocked dangerous command">>
    ELSE IF tool = "docker_run" /\ Arg(args, "privileged", FALSE) = TRUE
    THEN <<"privileged containers are not allowed">>
    ELSE NoError

\* the letters, for strings.ToUpper
LowerLetters == <<"a", "b", "c", "d", "e", "f", "g", "h", "i", "j", "k", "l", "m", "n", "o", "p", "q", "r", "s", "t", "u", "v", "w", "x", "y", "z">>
UpperLetters == <<"A", "B", "C", "D", "E", "F", "G", "H", "I", "J", "K", "L", "M", "N", "O", "P", "Q", "R", "S", "T", "U", "V", "W", "X", "Y", "Z">>

\* strings.ToUpper
UpperChar(c) ==
    IF \E k \in 1..Len(LowerLetters) : LowerLetters[k] = c
    THEN UpperLetters[CHOOSE k \in 1..Len(LowerLetters) : LowerLetters[k] = c]
    ELSE c
ToUpper(s) == [k \in 1..Len(s) |-> UpperChar(s[k])]

\* strings.TrimSuffix
TrimSuffix(s, p) == IF HasSuffix(s, p) THEN SubSeq(s, 1, Len(s) - Len(p)) ELSE s

\* validInstructions of validateDockerfileSyntax (inspectors.go:72-78)
ValidInstructions ==
    { <<"F", "R", "O", "M">>,
      <<"R", "U", "N">>,
      <<"C", "M", "D">>,
      <<"L", "A", "B", "E", "L">>,
      <<"E", "X", "P", "O", "S", "E">>,
      <<"E", "N", "V">>,
      <<"A", "D", "D">>,
      <<"C", "O", "P", "Y">>,
      <<"E", "N", "T", "R", "Y", "P", "O", "I", "N", "T">>,
      <<"V", "O", "L", "U", "M", "E">>,
      <<"U", "S", "E", "R">>,
      <<"W", "O", "R", "K", "D", "I", "R">>,
      <<"A", "R", "G">>,
      <<"O", "N", "B", "U", "I", "L", "D">>,
      <<"S", "T", "O", "P", "S", "I", "G", "N", "A", "L">>,
      <<"H", "E", "A", "L", "T", "H", "C", "H", "E", "C", "K">>,
      <<"S", "H", "E", "L", "L">> }

\* validateDockerfileSyntax, the line continuation loop (inspectors.go:89-92):
\* the line read at index i (counted from 1) with its following lines
\* joined, and the index the loop stops at
RECURSIVE JoinContinuation(_, _, _)
JoinContinuation(lines, i, line) ==
    IF HasSuffix(line, <<"\\">>) /\ i < Len(lines)
    THEN JoinContinuation(lines, i + 1,
                          TrimSuffix(line, <<"\\">>) \o <<" ">> \o TrimSpace(lines[i + 1]))
    ELSE [line |-> line, i |-> i]

\* validateDockerfileSyntax, the range loop from index i on
\* (inspectors.go:80-121): the index of the range is not moved by the
\* continuation loop, so the next line read is always lines[i + 1]
RECURSIVE SyntaxScan(_, _, _)
SyntaxScan(lines, i, hasFROM) ==
    IF i > Len(lines)
    THEN (IF hasFROM THEN NoError ELSE <<"Dockerfile must have a FROM instruction">>)
    ELSE LET first == TrimSpace(lines[i]) IN
         IF first = <<>> \/ HasPrefix(first, <<"#">>)
         THEN SyntaxScan(lines, i + 1, hasFROM)
         ELSE LET j == JoinContinuation(lines, i, first)
                  parts == Fields(j.line) IN
              IF parts = <<>> THEN SyntaxScan(lines, i + 1, hasFROM)
              ELSE LET instruction == ToUpper(parts[1])
                       from == hasFROM \/ instruction = <<"F", "R", "O", "M">> IN
                   IF instruction \notin ValidInstructions /\ ~HasPrefix(j.line, <<"#", " ">>)
                   THEN IF ~from /\ Contains(j.line, <<"=">>)
                        THEN SyntaxScan(lines, i + 1, from)
                        ELSE <<"invalid instruction on line ", j.i, ": ", instruction>>
                   ELSE SyntaxScan(lines, i + 1, from)

\* validateDockerfileSyntax(content) (inspectors.go:68-122)
ValidateDockerfileSyntax(content) == SyntaxScan(Split(content, "\n"), 1, FALSE)

\* SyntaxInspector.Inspect (inspectors.go:53-66)
SyntaxInspect(tool, args) ==
    IF tool # "file_write" THEN NoError
    ELSE IF \/ Arg(args, "path", <<>>) = <<"D", "o", "c", "k", "e", "r", "f", "i", "l", "e">>
            \/ HasSuffix(Arg(args, "path", <<>>), <<"/", "D", "o", "c", "k", "e", "r", "f", "i", "l", "e">>)
    THEN ValidateDockerfileSyntax(Arg(args, "content", <<>>))
    ELSE NoError

\* placeholders of ContentInspector.Inspect (inspectors.go:183-190)
Placeholders ==
    { <<"T", "O", "D", "O", ":">>,
      <<"F", "I", "X", "M", "E", ":">>,
      <<"Y", "O", "U", "R", "_">>,
      <<"<", "y", "o", "u", "r", "-">>,
      <<"{", "{">>,
      <<"}", "}">> }

\* the typos of ContentInspector.Inspect (inspectors.go:200-206)
Typos ==
    { <<"F", "O", "R", "M", "O">>,
      <<"C", "O", "P", "P", "Y">>,
      <<"E", "X", "P", "O", "E", "S">>,
      <<"E", "N", "T", "R", "Y", "P", "O", "I", "T">>,
      <<"W", "O", "R", "K", "I", "D", "R">> }

\* a word character of a regular expression: a letter, a digit or _
Digits == <<"0", "1", "2", "3", "4", "5", "6", "7", "8", "9">>
IsWordChar(c) ==
    \/ \E k \in 1..Len(UpperLetters) : UpperLetters[k] = c \/ LowerLetters[k] = c
    \/ \E k \in 1..Len(Digits) : Digits[k] = c
    \/ c = "_"

\* regexp (?i)\bword\b matches content: word occurs, in any case, with
\* no word character before it and none after it
MatchesWord(content, word) ==
    \E i \in 0..(Len(content) - Len(word)) :
        /\ \A j \in 1..Len(word) : UpperChar(content[i + j]) = word[j]
        /\ i = 0 \/ ~IsWordChar(content[i])
        /\ i + Len(word) = Len(content) \/ ~IsWordChar(content[i + Len(word) + 1])

\* ContentInspector.Inspect (inspectors.go:174-217); which typo the error
\* names depends on the order of a map and is left out of the text
ContentInspect(tool, args) ==
    IF tool # "file_write" THEN NoError
    ELSE IF \E ph \in Placeholders : Contains(Arg(args, "content", <<>>), ph)
    THEN <<"content contains placeholder text">>
    ELSE IF /\ HasSuffix(Arg(args, "path", <<>>), <<"D", "o", "c", "k", "e", "r", "f", "i", "l", "e">>)
            /\ \E t \in Typos : MatchesWord(Arg(args, "content", <<>>), t)
    THEN <<"possible typo">>
    ELSE NoError

\* Inspector.Inspect by inspector name
Inspect(name, tool, args) ==
    CASE name = "security" -> SecurityInspect(tool, args)
      [] name = "syntax"   -> SyntaxInspect(tool, args)
      [] name = "content"  -> ContentInspect(tool, args)

-----------------------------------------------------------------------------
(* Tool Dispatcher *)

\* an inspectors loop that reports the last inspector that rejects
FirstRejecting_Last(insp, tool, args) ==
    IF \E k \in 1..Len(insp) : Inspect(insp[k], tool, args) # NoError
    THEN CHOOSE k \in 1..Len(insp) :
            /\ Inspect(insp[k], tool, args) # NoError
            /\ \A j \in (k + 1)..Len(insp) : Inspect(insp[j], tool, args) = NoError
    ELSE 0

\* the inspectors loop of Execute: index of the first inspector of list
\* insp that rejects the call, 0 when all approve
FirstRejecting(insp, tool, args) ==
    IF \E k \in 1..Len(insp) : Inspect(insp[k], tool, args) # NoError
    THEN CHOOSE k \in 1..Len(insp) :
            /\ Inspect(insp[k], tool, args) # NoError
            /\ \A j \in 1..(k - 1) : Inspect(insp[j], tool, args) = NoError
    ELSE 0

\* ToolDispatcher.Execute up to the call of tool.Execute: the inspectors
\* consulted, whether the tool is invoked, and the error when it is not
Dispatch(insp, tool, args) ==
    IF tool \notin RegisteredTools
    THEN [inspectedBy |-> <<>>, invoked |-> FALSE, err |-> <<"unknown tool: ", tool>>]
    ELSE LET k == FirstRejecting(insp, tool, args) IN
         IF k = 0
         THEN [inspectedBy |-> insp, invoked |-> TRUE, err |-> NoError]
         ELSE [inspectedBy |-> SubSeq(insp, 1, k), invoked |-> FALSE,
               err |-> <<"inspector ", insp[k], " rejected tool call: ">>
                        \o Inspect(insp[k], tool, args)]

-----------------------------------------------------------------------------
(* Agent: New *)

\* New: the maxAttempts of the Agent built from cfg.MaxAttempts
NewMaxAttempts(cfg) == IF cfg = 0 THEN DefaultMaxAttempts ELSE cfg

\* New: Agent.inspectors
NewAgentInspectors == <<"security", "syntax">>

\* New: the inspectors of the dispatcher NewToolDispatcher(cfg.WorkDir)
\* returns; New never calls SetInspectors on it
NewDispatcherInspectors == <<>>

\* an emit on a channel without a capacity
Emit_Unbounded(ch, type) == Append(ch, type)

\* Agent.emit: a non-blocking send on the events channel
Emit(ch, type) == IF Len(ch) < EventCap THEN Append(ch, type) ELSE ch

\* two sends in a row
Emit2(ch, t1, t2) == Emit(Emit(ch, t1), t2)

\* a Run that feeds no error forward
NextInstructions_DropError(instr, err) == instr

\* Run: the instructions of the next attempt (part_019:882)
NextInstructions(instr, err) ==
    instr \o <<"\n\nPrevious attempt failed with error:\n">> \o err
          \o <<"\n\nPlease fix this issue.">>

\* a loop that runs one attempt too many
LoopContinues_OneMore(n, max) == n <= max + 1

\* Run: whether the loop body runs for this value of attempt (part_019:866)
LoopContinues(n, max) == n <= max

\* a Run that extends the instructions after its last attempt too
FeedsForward_Always(n, max) == TRUE

\* Run: whether a failed attempt n extends the instructions (part_019:879)
FeedsForward(n, max) == n < max

\* runAttempt: where it goes after a step; "return" ends the attempt
AfterGenerate(ok) == IF ok THEN "write" ELSE "return"
AfterWrite(ok)    == IF ok THEN "build" ELSE "return"
\* a runAttempt that goes on to the test after a failed build
AfterBuild_NoAbort(ok) == "test"
AfterBuild(ok)    == IF ok THEN "test" ELSE "return"

AgentInit ==
    /\ cfgMaxAttempts \in 0..MaxCfgAttempts
    /\ maxAttempts = NewMaxAttempts(cfgMaxAttempts)
    /\ aInspectors = NewAgentInspectors
    /\ tdInspectors = NewDispatcherInspectors
    /\ events = <<>>
    /\ received = 0
    /\ pc = "idle"
    /\ attempt = 0
    /\ instructions = InitialInstructions
    /\ cur = NewAttempt(0)
    /\ result = [Success |-> FALSE, Attempts |-> <<>>, FinalOutput |-> NoOutput]
    /\ cancelled = FALSE
    /\ workDir \in [FileNames -> {NoFile}] \cup
                    {[n \in FileNames |-> IF n = "Dockerfile" THEN Dockerfile0 ELSE NoFile]}
    /\ genCalls = <<>>
    /\ fsLog = {}
    /\ toolCalls = <<>>
    /\ stepLog = <<>>

(* Run, part_019:858-866: emit start, make the Result, enter the loop *)
RunStart ==
    /\ pc = "idle"
    /\ events' = Emit(events, "start")
    /\ result' = [Success |-> FALSE, Attempts |-> <<>>, FinalOutput |-> NoOutput]
    /\ attempt' = 1
    /\ pc' = "loop"
    /\ UNCHANGED <<received, cfgMaxAttempts, maxAttempts, aInspectors, tdInspectors, instructions,
                   cur, cancelled, workDir, genCalls, fsLog, toolCalls, stepLog>>

(* Run, part_019:866-869 and runAttempt, part_019:893-901: the loop
   condition; when it holds, emit analyzing, enter runAttempt, emit
   generating; the provider is called next *)
LoopHead ==
    /\ pc = "loop"
    /\ IF LoopContinues(attempt, maxAttempts)
       THEN /\ events' = Emit2(events, "analyzing", "generating")
            /\ cur' = NewAttempt(attempt)
            /\ pc' = "generate"
       ELSE /\ pc' = "finish"
            /\ UNCHANGED <<events, cur>>
    /\ UNCHANGED <<received, cfgMaxAttempts, maxAttempts, aInspectors, tdInspectors, attempt,
                   instructions, result, cancelled, workDir, genCalls, fsLog,
                   toolCalls, stepLog>>

(* runAttempt, part_019:901-913: provider.Generate is called with the
   current instructions and returns an error or a Response.  The provider is an external collaborator: with the context
   cancelled it may fail with the context's error or, ignoring the context,
   still answer. *)
Generate ==
    /\ pc = "generate"
    /\ genCalls' = Append(genCalls, instructions)
    /\ \/ \E e \in GenErrors(cancelled) :
            /\ cur' = [cur EXCEPT !.Error = e]
            /\ stepLog' = Append(stepLog, <<attempt, "generate", FALSE>>)
            /\ pc' = AfterGenerate(FALSE)
       \/ \E r \in Responses :
            /\ cur' = [cur EXCEPT !.Output = OutputOf(r)]
            /\ stepLog' = Append(stepLog, <<attempt, "generate", TRUE>>)
            /\ pc' = AfterGenerate(TRUE)
    /\ UNCHANGED <<received, cfgMaxAttempts, maxAttempts, aInspectors, tdInspectors, events, attempt,
                   instructions, result, cancelled, workDir, fsLog, toolCalls>>

\* WriteDockerFiles: the files it writes when none fails, those with content
NonEmptyFiles(output) == {n \in FileNames : FilesOf(output)[n] # <<>>}

\* WriteDockerFiles: the working directory after os.WriteFile of the files
\* in written
WriteAll(dir, output, written) ==
    [n \in FileNames |-> IF n \in written THEN FilesOf(output)[n] ELSE dir[n]]

\* WriteDockerFiles: how each file reaches the working directory: a direct
\* os.WriteFile (part_019:187), no tool and no inspector involved
DirectWrites(n, output, written) ==
    { [attempt |-> n, file |-> f, content |-> FilesOf(output)[f],
       via |-> "os.WriteFile", tool |-> "none", inspectedBy |-> <<>>] : f \in written }

(* runAttempt, part_019:915-923: ToolDispatcher.WriteDockerFiles.  The files
   map is ranged over in Go's unspecified map order, so a failing
   os.WriteFile leaves any subset of the other files written. *)
WriteFiles ==
    /\ pc = "write"
    /\ \/ /\ workDir' = WriteAll(workDir, cur.Output, NonEmptyFiles(cur.Output))
          /\ stepLog' = Append(stepLog, <<attempt, "write", TRUE>>)
          /\ fsLog' = fsLog \cup DirectWrites(attempt, cur.Output, NonEmptyFiles(cur.Output))
          /\ events' = Emit(events, "building")
          /\ pc' = AfterWrite(TRUE)
          /\ cur' = cur
       \/ \E bad \in NonEmptyFiles(cur.Output) :
          \E written \in SUBSET (NonEmptyFiles(cur.Output) \ {bad}) :
            /\ workDir' = WriteAll(workDir, cur.Output, written)
            /\ fsLog' = fsLog \cup DirectWrites(attempt, cur.Output, written)
            /\ cur' = [cur EXCEPT !.Error = <<"failed to write files: ">> \o WriteError(bad)]
            /\ stepLog' = Append(stepLog, <<attempt, "write", FALSE>>)
            /\ pc' = AfterWrite(FALSE)
            /\ events' = events
    /\ UNCHANGED <<received, cfgMaxAttempts, maxAttempts, aInspectors, tdInspectors, attempt,
                   instructions, result, cancelled, genCalls, toolCalls>>

\* arguments of the two tool calls of runAttempt (part_019:924-927, 938-941)
BuildArgs == [dockerfile |-> "Dockerfile", tag |-> "dockerize-test:latest"]
TestArgs == [image |-> "dockerize-test:latest", timeout |-> 30]

\* outcomes of exec.CommandContext(ctx, ...).Run(): with the context already
\* cancelled the command is not started and Run returns the context's error
CmdOutcomes(c) == IF c THEN {"ctx"} ELSE {"ok", "fail"}

\* the error text of a failed command
CmdError(o) == IF o = "ctx" THEN "context canceled" ELSE "exit status 1"

(* runAttempt, part_019:922-937: Execute("docker_build") and
   DockerBuildTool.Execute, part_019:212-237 *)
Build ==
    /\ pc = "build"
    /\ LET d == Dispatch(tdInspectors, "docker_build", BuildArgs) IN
       /\ toolCalls' = Append(toolCalls, [tool |-> "docker_build",
                                          inspectedBy |-> d.inspectedBy, invoked |-> d.invoked])
       /\ IF ~d.invoked
          THEN /\ cur' = [cur EXCEPT !.Error = <<"build failed: ">> \o d.err]
               /\ stepLog' = Append(stepLog, <<attempt, "build", FALSE>>)
               /\ pc' = AfterBuild(FALSE)
               /\ events' = events
          ELSE \E o \in CmdOutcomes(cancelled) :
               IF o = "ok"
               THEN /\ cur' = [cur EXCEPT !.BuildLog = "build output"]
                    /\ events' = Emit(events, "testing")
                    /\ stepLog' = Append(stepLog, <<attempt, "build", TRUE>>)
                    /\ pc' = AfterBuild(TRUE)
               ELSE /\ cur' = [cur EXCEPT
                                 !.Error = <<"build failed: ", "docker build failed: ",
                                             CmdError(o), "\n", "build output">>,
                                 !.BuildLog = "build output"]
                    /\ stepLog' = Append(stepLog, <<attempt, "build", FALSE>>)
                    /\ pc' = AfterBuild(FALSE)
                    /\ events' = events
    /\ UNCHANGED <<received, cfgMaxAttempts, maxAttempts, aInspectors, tdInspectors, attempt,
                   instructions, result, cancelled, workDir, genCalls, fsLog>>

(* runAttempt, part_019:938-941: Execute("docker_run") and the start of
   DockerRunTool.Execute, part_019:247-270: the container is started
   detached *)
TestStart ==
    /\ pc = "test"
    /\ LET d == Dispatch(tdInspectors, "docker_run", TestArgs) IN
       /\ toolCalls' = Append(toolCalls, [tool |-> "docker_run",
                                          inspectedBy |-> d.inspectedBy, invoked |-> d.invoked])
       /\ IF ~d.invoked
          THEN /\ cur' = [cur EXCEPT !.Error = <<"test failed: ">> \o d.err]
               /\ stepLog' = Append(stepLog, <<attempt, "test", FALSE>>)
               /\ pc' = "return"
          ELSE \E o \in CmdOutcomes(cancelled) :
               IF o = "ok"
               THEN /\ pc' = "test_poll"
                    /\ UNCHANGED <<cur, stepLog>>
               ELSE /\ cur' = [cur EXCEPT
                                 !.Error = <<"test failed: ", "docker run failed: ", CmdError(o)>>,
                                 !.TestLog = "run output"]
                    /\ stepLog' = Append(stepLog, <<attempt, "test", FALSE>>)
                    /\ pc' = "return"
    /\ UNCHANGED <<received, cfgMaxAttempts, maxAttempts, aInspectors, tdInspectors, events, attempt,
                   instructions, result, cancelled, workDir, genCalls, fsLog>>

(* DockerRunTool.Execute, part_019:272-302, and runAttempt, part_019:942-953:
   after the wait the status is polled; a container that is not running
   fails the test, every other case (running, or the poll itself failed)
   is reported as success *)
TestPoll ==
    /\ pc = "test_poll"
    /\ \E o \in CmdOutcomes(cancelled), status \in {"running", "exited"} :
         IF o = "ok" /\ status # "running"
         THEN /\ cur' = [cur EXCEPT
                           !.Error = <<"test failed: ", "container exited with status: ", status>>,
                           !.TestLog = "container logs"]
              /\ stepLog' = Append(stepLog, <<attempt, "test", FALSE>>)
         ELSE /\ cur' = [cur EXCEPT !.TestLog = "Container started and ran successfully",
                                    !.Success = TRUE]
              /\ stepLog' = Append(stepLog, <<attempt, "test", TRUE>>)
    /\ pc' = "return"
    /\ UNCHANGED <<received, cfgMaxAttempts, maxAttempts, aInspectors, tdInspectors, events, attempt,
                   instructions, result, cancelled, workDir, genCalls, fsLog, toolCalls>>

(* Run, part_019:870-884: the Attempt is appended to the Result; a success
   ends the loop, a failure before the last attempt extends the
   instructions *)
AttemptReturn ==
    /\ pc = "return"
    /\ IF cur.Success
       THEN /\ result' = [Success |-> TRUE, Attempts |-> Append(result.Attempts, cur),
                          FinalOutput |-> cur.Output]
            /\ events' = Emit(events, "success")
            /\ pc' = "finish"
            /\ UNCHANGED <<attempt, instructions>>
       ELSE /\ result' = [result EXCEPT !.Attempts = Append(result.Attempts, cur)]
            /\ IF FeedsForward(attempt, maxAttempts)
               THEN /\ events' = Emit(events, "fixing")
                    /\ instructions' = NextInstructions(instructions, cur.Error)
               ELSE UNCHANGED <<events, instructions>>
            /\ attempt' = attempt + 1
            /\ pc' = "loop"
    /\ UNCHANGED <<received, cfgMaxAttempts, maxAttempts, aInspectors, tdInspectors, cur, cancelled,
                   workDir, genCalls, fsLog, toolCalls, stepLog>>

(* Run, part_019:886-889: emit complete and return the Result *)
RunFinish ==
    /\ pc = "finish"
    /\ events' = Emit(events, "complete")
    /\ pc' = "done"
    /\ UNCHANGED <<received, cfgMaxAttempts, maxAttempts, aInspectors, tdInspectors, attempt,
                   instructions, cur, result, cancelled, workDir, genCalls, fsLog,
                   toolCalls, stepLog>>

(* The caller cancels the context handed to Run (internal/cli/agent.go:82:
   a 30 minute timeout), at any moment of the Run *)
Cancel ==
    /\ ~cancelled
    /\ pc \notin {"idle", "done"}
    /\ cancelled' = TRUE
    /\ UNCHANGED <<received, cfgMaxAttempts, maxAttempts, aInspectors, tdInspectors, events, pc,
                   attempt, instructions, cur, result, workDir, genCalls, fsLog,
                   toolCalls, stepLog>>

\* the filesystem is not touched by the model of the Run: its working
\* directory is the variable workDir
PathIdle ==
    /\ fs = <<>>
    /\ fw = <<>>
    /\ fr = <<>>

\* the paths of the files a dispatcher of its own writes, relative to its
\* working directory
DispatchPaths ==
    { <<"D", "o", "c", "k", "e", "r", "f", "i", "l", "e">>,
      <<"a", "p", "p", "/", "D", "o", "c", "k", "e", "r", "f", "i", "l", "e">>,
      <<"n", "o", "t", "e", "s", ".", "t", "x", "t">> }

\* no dispatcher of its own is in use
DispatchIdle ==
    /\ tdLog = <<>>
    /\ tdFiles = [p \in DispatchPaths |-> NoFile]

\* no RepetitionInspector is in use
RepIdle ==
    /\ repCfg = 0
    /\ repCall = <<>>
    /\ repMaxReps = 0
    /\ repHistory = <<>>
    /\ repLog = <<>>

\* docker_run is not called
RunToolIdle == dr = <<>>

\* no recipe is executed
RecipeIdle == rc = <<>>

\* no shell command is submitted
ShellIdle ==
    /\ shCmd = <<>>
    /\ shPc = "idle"
    /\ shErr = NoError
    /\ procs = <<>>

vars == <<agentVars, pathVars, shellVars, dispatchVars, repVars, runToolVars, recipeVars>>

Init == AgentInit /\ PathIdle /\ ShellIdle /\ DispatchIdle /\ RepIdle /\ RunToolIdle /\ RecipeIdle

Next ==
    \/ RunStart /\ UNCHANGED nonAgentVars
    \/ LoopHead /\ UNCHANGED nonAgentVars
    \/ Generate /\ UNCHANGED nonAgentVars
    \/ WriteFiles /\ UNCHANGED nonAgentVars
    \/ Build /\ UNCHANGED nonAgentVars
    \/ TestStart /\ UNCHANGED nonAgentVars
    \/ TestPoll /\ UNCHANGED nonAgentVars
    \/ AttemptReturn /\ UNCHANGED nonAgentVars
    \/ RunFinish /\ UNCHANGED nonAgentVars
    \/ Cancel /\ UNCHANGED nonAgentVars

\* one Run of an Agent made by New
Spec == Init /\ [][Next]_vars

-----------------------------------------------------------------------------
(* The events channel and its observer *)

\* the emits of attempts n..max of a Run in which every provider.Generate
\* call fails (part_019:867, 900, 880)
RECURSIVE FailedAttemptsEvents(_, _)
FailedAttemptsEvents(n, max) ==
    IF ~LoopContinues(n, max) THEN <<>>
    ELSE <<"analyzing", "generating">>
         \o (IF FeedsForward(n, max) THEN <<"fixing">> ELSE <<>>)
         \o FailedAttemptsEvents(n + 1, max)

\* the emits of such a Run (part_019:859, 887)
FailedRunEvents(max) ==
    <<"start">> \o FailedAttemptsEvents(1, max) \o <<"complete">>

\* the channel after runs such Runs that no observer received from: every
\* emit on the full channel was dropped, so it holds the first EventCap
\* events emitted
Backlog(runs, max) ==
    LET one == FailedRunEvents(max)
        emitted == [i \in 1..(runs * Len(one)) |-> one[((i - 1) % Len(one)) + 1]] IN
    IF Len(emitted) <= EventCap THEN emitted ELSE SubSeq(emitted, 1, EventCap)

\* an Agent made by New on which Run was called some times before, each
\* time in vain, nothing having been received from Events()
EmitInit ==
    /\ cfgMaxAttempts \in 1..MaxEmitAttempts
    /\ maxAttempts = NewMaxAttempts(cfgMaxAttempts)
    /\ aInspectors = NewAgentInspectors
    /\ tdInspectors = NewDispatcherInspectors
    /\ \E runs \in (MaxEarlierRuns - 2)..MaxEarlierRuns :
          events = Backlog(runs, maxAttempts)
    /\ received = 0
    /\ pc = "idle"
    /\ attempt = 0
    /\ instructions = InitialInstructions
    /\ cur = NewAttempt(0)
    /\ result = [Success |-> FALSE, Attempts |-> <<>>, FinalOutput |-> NoOutput]
    /\ cancelled = FALSE
    /\ workDir = [n \in FileNames |-> NoFile]
    /\ genCalls = <<>>
    /\ fsLog = {}
    /\ toolCalls = <<>>
    /\ stepLog = <<>>
    /\ PathIdle
    /\ ShellIdle
    /\ DispatchIdle
    /\ RepIdle
    /\ RunToolIdle
    /\ RecipeIdle

(* runAgent's goroutine, internal/cli/agent.go:99-124: the observer
   receives one event from Events() *)
Observe ==
    /\ received < MaxReceives
    /\ events # <<>>
    /\ events' = Tail(events)
    /\ received' = received + 1
    /\ UNCHANGED <<cfgMaxAttempts, maxAttempts, aInspectors, tdInspectors, pc,
                   attempt, instructions, cur, result, cancelled, workDir,
                   genCalls, fsLog, toolCalls, stepLog>>

\* the steps of Run and runAttempt
RunStep ==
    \/ RunStart
    \/ LoopHead
    \/ Generate
    \/ WriteFiles
    \/ Build
    \/ TestStart
    \/ TestPoll
    \/ AttemptReturn
    \/ RunFinish

EmitNext ==
    \/ RunStep /\ UNCHANGED nonAgentVars
    \/ Cancel /\ UNCHANGED nonAgentVars
    \/ Observe /\ UNCHANGED nonAgentVars

\* a Run beside an observer that receives when it pleases, or never; the
\* goroutine of Run is scheduled and every call it makes returns
SpecEmit == EmitInit /\ [][EmitNext]_vars /\ WF_vars(RunStep /\ UNCHANGED nonAgentVars)

-----------------------------------------------------------------------------
(* Path Sandbox: paths and the filesystem.  An absolute path is the
   sequence of its names: <<>> is /, <<"w", "a">> is /w/a. *)

\* the working directory (canonical: a real directory under /)
Root == <<"w">>

\* a directory outside the working directory
Outside == <<"o">>

\* names of the entries of a directory
Names == {"a", "b"}

\* the absolute paths that may hold a node
Paths ==
    {<<>>, Root, Outside}
    \cup {<<r, x>> : r \in {"w", "o"}, x \in Names}
    \cup {<<r, x, y>> : r \in {"w", "o"}, x \in Names, y \in Names}

\* the result of a failed resolution
Fail == <<"<error>">>

\* nodes
AbsentNode == [kind |-> "none", target |-> <<>>, data |-> ""]
DirNode == [kind |-> "dir", target |-> <<>>, data |-> ""]
FileNode(d) == [kind |-> "file", target |-> <<>>, data |-> d]
LinkNode(t) == [kind |-> "link", target |-> t, data |-> ""]

\* the node at an absolute path, not following a symlink at it
NodeAt(f, p) == IF p \in DOMAIN f THEN f[p] ELSE AbsentNode

\* filepath.Dir of an absolute path
Dir(p) == IF p = <<>> THEN <<>> ELSE SubSeq(p, 1, Len(p) - 1)

\* the path walk of the kernel and of filepath.EvalSymlinks: from the
\* resolved directory at, walk the names rest, following every symlink
\* (targets are absolute), at most hops of them; the canonical path, or Fail
RECURSIVE Walk(_, _, _, _)
Walk(f, at, rest, hops) ==
    IF rest = <<>> THEN at
    ELSE IF NodeAt(f, at).kind # "dir" THEN Fail
    ELSE LET q == Append(at, Head(rest))
             n == NodeAt(f, q) IN
         CASE n.kind = "none" -> Fail
           [] n.kind = "link" ->
                IF hops = 0 THEN Fail
                ELSE Walk(f, <<>>, n.target \o Tail(rest), hops - 1)
           [] OTHER -> Walk(f, q, Tail(rest), hops)

\* filepath.EvalSymlinks of an absolute path
EvalSymlinks(f, p) == Walk(f, <<>>, p, MaxHops)

\* open(2) with O_CREAT, as os.WriteFile does: the canonical path of the
\* file the call writes, creating it when absent; a symlink at the last
\* name is followed, also when its target does not exist yet; Fail when a
\* directory on the way is missing or the path names a directory
RECURSIVE OpenCreate(_, _, _)
OpenCreate(f, p, hops) ==
    IF p = <<>> THEN Fail
    ELSE LET d == EvalSymlinks(f, Dir(p)) IN
         IF d = Fail \/ NodeAt(f, d).kind # "dir" THEN Fail
         ELSE LET q == Append(d, p[Len(p)])
                  n == NodeAt(f, q) IN
              CASE n.kind = "dir"  -> Fail
                [] n.kind = "link" ->
                     IF hops = 0 THEN Fail ELSE OpenCreate(f, n.target, hops - 1)
                [] OTHER -> q

\* filepath.Clean of a relative path given by its segments: "." segments
\* are dropped, a ".." removes the segment before it, leading ".." stay
RECURSIVE CleanRel(_, _)
CleanRel(done, rest) ==
    IF rest = <<>> THEN done
    ELSE LET c == Head(rest) IN
         CASE c = "." \/ c = "" -> CleanRel(done, Tail(rest))
           [] c = ".." ->
                IF done # <<>> /\ done[Len(done)] # ".."
                THEN CleanRel(SubSeq(done, 1, Len(done) - 1), Tail(rest))
                ELSE CleanRel(Append(done, c), Tail(rest))
           [] OTHER -> CleanRel(Append(done, c), Tail(rest))

\* filepath.Join(base, rel): the cleaned concatenation; under an absolute
\* base a ".." removes the name before it and is dropped at /
RECURSIVE JoinAbs(_, _)
JoinAbs(base, rel) ==
    IF rel = <<>> THEN base
    ELSE IF Head(rel) = ".." THEN JoinAbs(Dir(base), Tail(rel))
    ELSE JoinAbs(Append(base, Head(rel)), Tail(rel))

\* isPathWithin: path is base or lies below it
IsPathWithin(path, base) ==
    /\ Len(base) <= Len(path)
    /\ SubSeq(path, 1, Len(base)) = base

\* resolveExistingParent: walk up from path until a parent resolves
RECURSIVE ResolveExistingParent(_, _)
ResolveExistingParent(f, path) ==
    LET parent == Dir(path) IN
    IF parent = path THEN EvalSymlinks(f, parent)
    ELSE IF EvalSymlinks(f, parent) # Fail THEN EvalSymlinks(f, parent)
    ELSE ResolveExistingParent(f, parent)

\* securePath(baseDir, path) for a path given as [abs, segs]: the full
\* path, or Fail
SecurePath(f, base, path) ==
    IF path.abs THEN Fail
    ELSE LET realBase == EvalSymlinks(f, base)
             fullPath == JoinAbs(base, CleanRel(<<>>, path.segs))
             realPath == EvalSymlinks(f, fullPath) IN
         IF realBase = Fail THEN Fail
         ELSE IF realPath = Fail
         THEN LET parentDir == Dir(fullPath)
                  realParent ==
                      IF EvalSymlinks(f, parentDir) # Fail
                      THEN EvalSymlinks(f, parentDir)
                      ELSE ResolveExistingParent(f, parentDir) IN
              IF realParent = Fail THEN Fail
              ELSE IF ~IsPathWithin(realParent, realBase) THEN Fail
              ELSE fullPath
         ELSE IF ~IsPathWithin(realPath, realBase) THEN Fail
         ELSE fullPath

\* os.MkdirAll(p): the filesystem after it and whether it succeeded
RECURSIVE MkdirAll(_, _)
MkdirAll(f, p) ==
    LET st == EvalSymlinks(f, p) IN
    IF st # Fail
    THEN [fs |-> f, ok |-> NodeAt(f, st).kind = "dir"]
    ELSE \* slow path: make the parent, then Mkdir(p); / always resolves
         LET up == MkdirAll(f, Dir(p)) IN
         IF ~up.ok THEN up
         ELSE LET d == EvalSymlinks(up.fs, Dir(p))
                  q == Append(d, p[Len(p)]) IN
              IF d = Fail \/ NodeAt(up.fs, d).kind # "dir"
              THEN [fs |-> up.fs, ok |-> FALSE]
              ELSE IF NodeAt(up.fs, q).kind = "none" /\ q \in Paths
              THEN [fs |-> [up.fs EXCEPT ![q] = DirNode], ok |-> TRUE]
              ELSE \* Mkdir failed (a dangling symlink is in the way):
                   \* Lstat(p) must show a directory
                   [fs |-> up.fs, ok |-> NodeAt(up.fs, q).kind = "dir"]

\* FileWriteTool.Execute(path, content): the filesystem after the call,
\* whether it succeeded, and the canonical location of the file written
FileWriteExecute(f, path, content) ==
    LET failed == [fs |-> f, ok |-> FALSE, real |-> Fail] IN
    IF ~path.abs /\ path.segs = <<>> THEN failed
    ELSE LET fullPath == SecurePath(f, Root, path) IN
         IF fullPath = Fail THEN failed
         ELSE LET md == MkdirAll(f, Dir(fullPath)) IN
              IF ~md.ok THEN [fs |-> md.fs, ok |-> FALSE, real |-> Fail]
              ELSE LET loc == OpenCreate(md.fs, fullPath, MaxHops) IN
                   IF loc = Fail \/ loc \notin Paths
                   THEN [fs |-> md.fs, ok |-> FALSE, real |-> Fail]
                   ELSE [fs |-> [md.fs EXCEPT ![loc] = FileNode(content)],
                         ok |-> TRUE, real |-> loc]

\* the filesystem before any call: /w is empty, /o holds a file a
InitialFS ==
    [p \in Paths |->
        CASE p \in {<<>>, Root, Outside} -> DirNode
          [] p = <<"o", "a">>            -> FileNode("secret")
          [] OTHER                       -> AbsentNode]

\* targets of planted symlinks: the outside directory, an existing file
\* and a not yet existing name in it, and entries of the root
Targets == {Outside, <<"o", "a">>, <<"o", "b">>, <<"w", "a">>, <<"w", "b">>}

\* the paths handed to file_write: [abs, segs], segs the path split at "/"
RelPaths ==
    { [abs |-> FALSE, segs |-> <<"a">>],
      [abs |-> FALSE, segs |-> <<"b">>],
      [abs |-> FALSE, segs |-> <<"a", "b">>],
      [abs |-> FALSE, segs |-> <<"b", "a">>],
      [abs |-> FALSE, segs |-> <<"a", "..", "b">>],
      [abs |-> FALSE, segs |-> <<"..", "o", "b">>],
      [abs |-> FALSE, segs |-> <<"..">>],
      [abs |-> FALSE, segs |-> <<>>],
      [abs |-> TRUE,  segs |-> <<"o", "b">>] }

\* the number of symlinks in the filesystem
LinkCount(f) == Cardinality({p \in Paths : f[p].kind = "link"})

\* no Run is in progress
AgentIdle ==
    /\ cfgMaxAttempts = 0
    /\ maxAttempts = NewMaxAttempts(0)
    /\ aInspectors = NewAgentInspectors
    /\ tdInspectors = NewDispatcherInspectors
    /\ events = <<>>
    /\ received = 0
    /\ pc = "idle"
    /\ attempt = 0
    /\ instructions = InitialInstructions
    /\ cur = NewAttempt(0)
    /\ result = [Success |-> FALSE, Attempts |-> <<>>, FinalOutput |-> NoOutput]
    /\ cancelled = FALSE
    /\ workDir = [n \in FileNames |-> NoFile]
    /\ genCalls = <<>>
    /\ fsLog = {}
    /\ toolCalls = <<>>
    /\ stepLog = <<>>

PathInit ==
    /\ AgentIdle
    /\ ShellIdle
    /\ DispatchIdle
    /\ RepIdle
    /\ RunToolIdle
    /\ RecipeIdle
    /\ fs = InitialFS
    /\ fw = [path |-> [abs |-> FALSE, segs |-> <<>>], ok |-> FALSE, real |-> Fail]
    /\ fr = <<>>

(* Someone with access to the working directory plants a symlink at a free
   name of a real directory at or below the root *)
Plant(p, t) ==
    /\ LinkCount(fs) < MaxLinks
    /\ p # Root
    /\ IsPathWithin(p, Root)
    /\ fs[p].kind = "none"
    /\ fs[Dir(p)].kind = "dir"
    /\ EvalSymlinks(fs, Dir(p)) = Dir(p)
    /\ fs' = [fs EXCEPT ![p] = LinkNode(t)]
    /\ UNCHANGED <<fw, fr>>

(* FileWriteTool.Execute, part_019:359-383 *)
FileWrite(path) ==
    LET r == FileWriteExecute(fs, path, "written") IN
    /\ fs' = r.fs
    /\ fw' = [path |-> path, ok |-> r.ok, real |-> r.real]
    /\ UNCHANGED fr

PathNext ==
    \/ \E p \in Paths, t \in Targets : Plant(p, t) /\ UNCHANGED nonPathVars
    \/ \E path \in RelPaths : FileWrite(path) /\ UNCHANGED nonPathVars

\* file_write calls on a working directory in which symlinks are planted
SpecPath == PathInit /\ [][PathNext]_vars

-----------------------------------------------------------------------------
(* Command Validator.  A command line, a token and a path are sequences of
   one-character strings. *)

\* filepath.IsAbs
IsAbs(path) == path # <<>> /\ Head(path) = "/"

\* the segments of a cleaned absolute path: "" and "." dropped, ".."
\* removes the segment before it and is dropped at /
RECURSIVE CleanAbsSegs(_, _)
CleanAbsSegs(done, rest) ==
    IF rest = <<>> THEN done
    ELSE LET c == Head(rest) IN
         CASE c = <<>> \/ c = <<".">> -> CleanAbsSegs(done, Tail(rest))
           [] c = <<".", ".">> -> CleanAbsSegs(Dir(done), Tail(rest))
           [] OTHER -> CleanAbsSegs(Append(done, c), Tail(rest))

\* filepath.Abs of an absolute path: filepath.Clean of it
AbsOf(path) == <<"/">> \o Join(CleanAbsSegs(<<>>, Split(path, "/")), <<"/">>)

\* filepath.Base
Base(path) ==
    LET segs == SelectSeq(Split(path, "/"), LAMBDA x : x # <<>>) IN
    IF path = <<>> THEN <<".">>
    ELSE IF segs = <<>> THEN <<"/">>
    ELSE segs[Len(segs)]

\* ShellTool.workDir, the sandbox root of the validator: /w
ShellWorkDir == <<"/", "w">>

\* a denylist of characters without the ampersand
BlockedChars_NoAmpersand == {"\n", "\r", ">", "<", "|", "$", "backquote", ";"}

\* the back quote character, written by name
BackQuote == "backquote"

\* blockedChars of validateShellCommand (part_019:464)
BlockedChars == {"\n", "\r", ">", "<", "|", "$", BackQuote, ";", "&"}

\* dangerousFlags of validateDockerCommand (part_019:498-508)
DangerousFlags ==
    { <<"-", "-", "p", "r", "i", "v", "i", "l", "e", "g", "e", "d">>,
      <<"-", "-", "p", "i", "d", "=", "h", "o", "s", "t">>,
      <<"-", "-", "n", "e", "t", "w", "o", "r", "k", "=", "h", "o", "s", "t">>,
      <<"-", "-", "u", "s", "e", "r", "n", "s", "=", "h", "o", "s", "t">>,
      <<"-", "-", "u", "t", "s", "=", "h", "o", "s", "t">>,
      <<"-", "-", "i", "p", "c", "=", "h", "o", "s", "t">>,
      <<"-", "-", "c", "a", "p", "-", "a", "d", "d">>,
      <<"-", "-", "s", "e", "c", "u", "r", "i", "t", "y", "-", "o", "p", "t">>,
      <<"-", "-", "d", "e", "v", "i", "c", "e">> }

\* sensitiveRoots of validateVolumeMount (part_019:584)
SensitiveRoots ==
    { <<"/">>,
      <<"/", "e", "t", "c">>,
      <<"/", "v", "a", "r">>,
      <<"/", "u", "s", "r">>,
      <<"/", "r", "o", "o", "t">>,
      <<"/", "h", "o", "m", "e">> }

\* validateVolumeMount: the volume spec of option arg among args, <<>> when
\* none is found (part_019:541-556)
VolumeSpecOf(arg, args) ==
    IF Contains(arg, <<"=">>) THEN AfterFirstEq(arg)
    ELSE IF arg = <<"-", "v">> \/ arg = <<"-", "-", "v", "o", "l", "u", "m", "e">>
    THEN IF \E i \in 1..(Len(args) - 1) : args[i] = arg
         THEN args[(CHOOSE i \in 1..(Len(args) - 1) :
                      args[i] = arg /\ \A j \in 1..(i - 1) : args[j] # arg) + 1]
         ELSE <<>>
    ELSE IF HasPrefix(arg, <<"-", "v">>)
    THEN TrimPrefix(arg, <<"-", "v">>)
    ELSE <<>>

\* validateVolumeMount: the checks of the host path (part_019:563-590)
HostPathError(hostPath) ==
    IF IsAbs(hostPath) /\ ~HasPrefix(AbsOf(hostPath), AbsOf(ShellWorkDir))
    THEN <<"volume mount outside working directory not allowed">>
    ELSE IF Contains(hostPath, <<".", ".">>)
    THEN <<"path traversal in volume mount not allowed">>
    ELSE IF \E r \in SensitiveRoots : hostPath = r \/ HasPrefix(hostPath, r \o <<"/">>)
    THEN <<"mounting sensitive host path not allowed">>
    ELSE NoError

\* validateVolumeMount(arg, args)
ValidateVolumeMount(arg, args) ==
    LET volumeSpec == VolumeSpecOf(arg, args) IN
    IF volumeSpec = <<>> THEN NoError
    ELSE HostPathError(Split(volumeSpec, ":")[1])

\* DockerArgError with the denylist matched by equality instead of prefix
DockerArgError_ExactFlag(arg, args) ==
    IF arg \in DangerousFlags
    THEN <<"dangerous docker flag not allowed">>
    ELSE NoError

\* validateDockerCommand: the checks of one argument, in the order of the
\* loop body (part_019:510-533)
DockerArgError(arg, args) ==
    IF \E d \in DangerousFlags : HasPrefix(arg, d)
    THEN <<"dangerous docker flag not allowed">>
    ELSE IF (HasPrefix(arg, <<"-", "v">>) \/ HasPrefix(arg, <<"-", "-", "v", "o", "l", "u", "m", "e">>))
            /\ ValidateVolumeMount(arg, args) # NoError
    THEN ValidateVolumeMount(arg, args)
    ELSE IF /\ HasPrefix(arg, <<"-", "-", "m", "o", "u", "n", "t">>)
            /\ Contains(arg, <<"t", "y", "p", "e", "=", "b", "i", "n", "d">>)
            /\ Contains(arg, <<"s", "o", "u", "r", "c", "e", "=", "/">>)
            /\ ~Contains(arg, <<"s", "o", "u", "r", "c", "e", "=">> \o ShellWorkDir)
    THEN <<"bind mounts outside working directory not allowed">>
    ELSE NoError

\* validateDockerCommand(args): the error of the first argument that has
\* one
ValidateDockerCommand(args) ==
    IF \E i \in 1..Len(args) : DockerArgError(args[i], args) # NoError
    THEN DockerArgError(args[CHOOSE i \in 1..Len(args) :
                                /\ DockerArgError(args[i], args) # NoError
                                /\ \A j \in 1..(i - 1) : DockerArgError(args[j], args) = NoError],
                        args)
    ELSE NoError

\* validateDockerComposeCommand(args) (part_019:596-625)
ValidateDockerComposeCommand(args) ==
    LET ExecBlocked ==
            \E i \in 1..(Len(args) - 1) :
                /\ args[i] = <<"e", "x", "e", "c">>
                /\ args[i + 1] # <<"-", "T">>
                /\ args[i + 1] # <<"-", "-", "n", "o", "-", "T", "T", "Y">>
                /\ ~HasPrefix(args[i + 1], <<"-">>)
        ArgError(arg) ==
            IF arg = <<"e", "x", "e", "c">> /\ ExecBlocked
            THEN <<"docker-compose exec not allowed (security restriction)">>
            ELSE IF arg = <<"r", "u", "n">>
            THEN <<"docker-compose run not allowed (security restriction)">>
            ELSE NoError IN
    IF \E i \in 1..Len(args) : ArgError(args[i]) # NoError
    THEN ArgError(args[CHOOSE i \in 1..Len(args) :
                          /\ ArgError(args[i]) # NoError
                          /\ \A j \in 1..(i - 1) : ArgError(args[j]) = NoError])
    ELSE NoError

\* a validateShellCommand that matches the program name by prefix
ValidateShellCommand_PrefixMatch(command) ==
    LET parts == Fields(TrimSpace(command)) IN
    IF parts = <<>> THEN <<"empty command">>
    ELSE IF HasPrefix(Base(parts[1]), <<"d", "o", "c", "k", "e", "r">>) THEN NoError
    ELSE <<"only docker and docker-compose commands are allowed">>

\* validateShellCommand(command) (part_019:460-493)
ValidateShellCommand(command) ==
    LET cmd == TrimSpace(command)
        parts == Fields(cmd) IN
    IF \E i \in 1..Len(cmd) : cmd[i] \in BlockedChars
    THEN <<"shell metacharacter not allowed">>
    ELSE IF Contains(cmd, <<"&", "&">>) \/ Contains(cmd, <<"|", "|">>)
    THEN <<"command chaining not allowed">>
    ELSE IF parts = <<>> THEN <<"empty command">>
    ELSE CASE Base(parts[1]) = <<"d", "o", "c", "k", "e", "r">> -> ValidateDockerCommand(Tail(parts))
           [] Base(parts[1]) = <<"d", "o", "c", "k", "e", "r", "-", "c", "o", "m", "p", "o", "s", "e">> ->
                ValidateDockerComposeCommand(Tail(parts))
           [] OTHER -> <<"only docker and docker-compose commands are allowed">>

\* a shell tool that refuses nothing
ShellRefusal_Never(command) == NoError

\* ShellTool.Execute(command) (part_019:430-456): the error it returns
\* before anything is run, NoError if the command is handed to sh -c
ShellRefusal(command) ==
    IF command = <<>> THEN <<"command is required">>
    ELSE ValidateShellCommand(command)

\* cmd.Run() of ShellTool.Execute: the command exits with status 0 or not
RunErrors == {NoError, <<"command failed">>}

(* ShellTool.Execute, part_019:430-456 *)
ShellExecute ==
    /\ shPc = "called"
    /\ shPc' = "returned"
    /\ IF ShellRefusal(shCmd) # NoError
       THEN /\ shErr' = ShellRefusal(shCmd)
            /\ procs' = procs
       ELSE /\ shErr' \in RunErrors
            /\ procs' = Append(procs, shCmd)
    /\ UNCHANGED shCmd

\* the host sources of the volume options submitted
HostSources ==
    { <<"d", "a", "t", "a">>,
      <<"/", "e", "t", "c">>,
      <<"/", "h", "o", "m", "e", "/", "u">>,
      <<"/", "w", "/", "d", "a", "t", "a">>,
      <<"/", "w", "2">> }

\* a volume option of host source src, in each of the five forms
VolumeOptions(src) ==
    LET spec == src \o <<":", "/", "d">> IN
    { <<<<"-", "v">>, spec>>,
      <<<<"-", "v">> \o spec>>,
      <<<<"-", "v", "=">> \o spec>>,
      <<<<"-", "-", "v", "o", "l", "u", "m", "e">>, spec>>,
      <<<<"-", "-", "v", "o", "l", "u", "m", "e", "=">> \o spec>> }

\* options that begin with a flag of DangerousFlags
FlagOptions ==
    { <<<<"-", "-", "p", "r", "i", "v", "i", "l", "e", "g", "e", "d">>>>,
      <<<<"-", "-", "p", "i", "d", "=", "h", "o", "s", "t">>>>,
      <<<<"-", "-", "n", "e", "t", "w", "o", "r", "k", "=", "h", "o", "s", "t">>>>,
      <<<<"-", "-", "u", "s", "e", "r", "n", "s", "=", "h", "o", "s", "t">>>>,
      <<<<"-", "-", "u", "t", "s", "=", "h", "o", "s", "t">>>>,
      <<<<"-", "-", "i", "p", "c", "=", "h", "o", "s", "t">>>>,
      <<<<"-", "-", "c", "a", "p", "-", "a", "d", "d", "=", "A", "L", "L">>>>,
      <<<<"-", "-", "s", "e", "c", "u", "r", "i", "t", "y", "-", "o", "p", "t", "=", "x">>>>,
      <<<<"-", "-", "d", "e", "v", "i", "c", "e", "=", "/", "d", "e", "v", "/", "s", "d", "a">>>> }

\* the subcommand and the image
PlainOptions == { <<<<"r", "u", "n">>>>, <<<<"i", "m", "g">>>> }

\* the options a docker command line is made of: each is a sequence of
\* one or two arguments
Options == (UNION {VolumeOptions(src) : src \in HostSources}) \cup FlagOptions \cup PlainOptions

\* the sequences of at most n options
RECURSIVE OptionSeqs(_)
OptionSeqs(n) ==
    IF n = 0 THEN {<<>>}
    ELSE OptionSeqs(n - 1) \cup
         {Append(q, o) : q \in {x \in OptionSeqs(n - 1) : Len(x) = n - 1}, o \in Options}

\* the arguments of a sequence of options
RECURSIVE Flatten(_)
Flatten(q) == IF q = <<>> THEN <<>> ELSE Head(q) \o Flatten(Tail(q))

\* the program of the docker command lines made of options
DockerPrograms == { <<"d", "o", "c", "k", "e", "r">> }

\* docker command lines: a program and options separated by one space
DockerCommands ==
    {Join(<<prog>> \o Flatten(q), <<" ">>) : prog \in DockerPrograms, q \in OptionSeqs(MaxOpts)}

\* other command lines
OtherCommands ==
    { <<>>,
      <<"l", "s">>,
      <<"d", "o", "c", "k", "e", "r">>,
      <<"d", "o", "c", "k", "e", "r", " ", "p", "s">>,
      <<"/", "u", "s", "r", "/", "b", "i", "n", "/", "d", "o", "c", "k", "e", "r", " ", "r", "u", "n", " ", "i", "m", "g">>,
      <<"/", "u", "s", "r", "/", "b", "i", "n", "/", "d", "o", "c", "k", "e", "r", " ", "r", "u", "n", " ", "-", "-", "p", "r", "i", "v", "i", "l", "e", "g", "e", "d", " ", "i", "m", "g">>,
      <<" ", "d", "o", "c", "k", "e", "r", "\t", "b", "u", "i", "l", "d", " ", ".", " ">>,
      <<"d", "o", "c", "k", "e", "r", " ", "p", "s", ";", " ", "l", "s">>,
      <<"d", "o", "c", "k", "e", "r", " ", "p", "s", " ", "&", "&", " ", "l", "s">>,
      <<"d", "o", "c", "k", "e", "r", "-", "c", "o", "m", "p", "o", "s", "e", " ", "u", "p">>,
      <<"d", "o", "c", "k", "e", "r", "-", "c", "o", "m", "p", "o", "s", "e", " ", "r", "u", "n", " ", "w", "e", "b">>,
      <<"d", "o", "c", "k", "e", "r", "-", "c", "o", "m", "p", "o", "s", "e", " ", "e", "x", "e", "c", " ", "w", "e", "b", " ", "s", "h">>,
      <<"d", "o", "c", "k", "e", "r", "-", "c", "o", "m", "p", "o", "s", "e", " ", "e", "x", "e", "c", " ", "-", "T", " ", "w", "e", "b", " ", "l", "s">> }

\* a command is submitted to the shell tool
ShellInit ==
    /\ AgentIdle
    /\ PathIdle
    /\ DispatchIdle
    /\ RepIdle
    /\ RunToolIdle
    /\ RecipeIdle
    /\ shCmd \in DockerCommands \cup OtherCommands
    /\ shPc = "called"
    /\ shErr = NoError
    /\ procs = <<>>

ShellNext ==
    \/ ShellExecute /\ UNCHANGED nonShellVars

\* one call of the shell tool
SpecShell == ShellInit /\ [][ShellNext]_vars

-----------------------------------------------------------------------------
(* The file_read tool, and the tools side by side *)

\* os.Lstat(p): the node at p, a symlink at the last name not followed;
\* AbsentNode when p does not exist
Lstat(f, p) ==
    IF p = <<>> THEN DirNode
    ELSE LET d == EvalSymlinks(f, Dir(p)) IN
         IF d = Fail \/ NodeAt(f, d).kind # "dir" THEN AbsentNode
         ELSE NodeAt(f, Append(d, p[Len(p)]))

\* a test of the mode that takes no node for a symlink
IsSymlink_Never(n) == FALSE

\* info.Mode()&os.ModeSymlink != 0
IsSymlink(n) == n.kind = "link"

\* the content FileReadTool.Execute returns with an error
NoContent == ""

\* FileReadTool.Execute(path) (part_019:393-420): whether it succeeded, the
\* content and the error it returned, and the canonical location of the
\* file it read (Fail when it read none)
FileReadExecute(f, path) ==
    LET failed(e) == [ok |-> FALSE, content |-> NoContent, err |-> e, real |-> Fail] IN
    IF ~path.abs /\ path.segs = <<>> THEN failed("path is required")
    ELSE LET fullPath == SecurePath(f, Root, path) IN
         IF fullPath = Fail THEN failed("path rejected")
         ELSE LET info == Lstat(f, fullPath) IN
              IF info.kind = "none" THEN failed("failed to stat file")
              ELSE IF IsSymlink(info) THEN failed("symlinks are not allowed")
              ELSE LET loc == EvalSymlinks(f, fullPath) IN
                   IF loc = Fail \/ NodeAt(f, loc).kind # "file"
                   THEN failed("failed to read file")
                   ELSE [ok |-> TRUE, content |-> NodeAt(f, loc).data,
                         err |-> "", real |-> loc]

\* the command lines handed to the shell tool beside the file tools
ToolCommands ==
    { <<"d", "o", "c", "k", "e", "r", " ", "p", "s">>,
      <<"l", "s">> }

\* an empty working directory, no file_write or file_read call made yet
FilesIdle ==
    /\ fs = InitialFS
    /\ fw = [path |-> [abs |-> FALSE, segs |-> <<>>], ok |-> FALSE, real |-> Fail]
    /\ fr = [path |-> [abs |-> FALSE, segs |-> <<>>], ok |-> FALSE,
             content |-> NoContent, err |-> "", real |-> Fail]

FilesInit ==
    /\ AgentIdle
    /\ ShellIdle
    /\ DispatchIdle
    /\ RepIdle
    /\ FilesIdle
    /\ RunToolIdle
    /\ RecipeIdle

\* the file tools, and a command submitted to the shell tool
ToolsInit ==
    /\ AgentIdle
    /\ DispatchIdle
    /\ RepIdle
    /\ FilesIdle
    /\ RunToolIdle
    /\ RecipeIdle
    /\ shCmd \in ToolCommands
    /\ shPc = "called"
    /\ shErr = NoError
    /\ procs = <<>>

(* FileReadTool.Execute, part_019:393-420 *)
FileRead(path) ==
    LET r == FileReadExecute(fs, path) IN
    /\ fr' = [path |-> path, ok |-> r.ok, content |-> r.content,
              err |-> r.err, real |-> r.real]
    /\ UNCHANGED <<fs, fw>>

FilesNext ==
    \/ \E p \in Paths, t \in Targets : Plant(p, t) /\ UNCHANGED nonPathVars
    \/ \E path \in RelPaths : FileWrite(path) /\ UNCHANGED nonPathVars
    \/ \E path \in RelPaths : FileRead(path) /\ UNCHANGED nonPathVars

\* file_write and file_read calls on a working directory in which symlinks
\* are planted
SpecFiles == FilesInit /\ [][FilesNext]_vars

\* targets of the symlinks planted beside the shell tool: the outside
\* directory and an entry of the root
ToolTargets == {Outside, <<"w", "a">>}

ToolsNext ==
    \/ \E p \in Paths, t \in ToolTargets : Plant(p, t) /\ UNCHANGED nonPathVars
    \/ \E path \in RelPaths : FileWrite(path) /\ UNCHANGED nonPathVars
    \/ \E path \in RelPaths : FileRead(path) /\ UNCHANGED nonPathVars
    \/ ShellExecute /\ UNCHANGED nonShellVars

\* file_write, file_read and shell calls on a working directory in which
\* symlinks are planted
SpecTools == ToolsInit /\ [][ToolsNext]_vars

-----------------------------------------------------------------------------
(* Command lines of every kind handed to the shell tool *)

\* the words of docker-compose command lines
ComposeWords ==
    { <<"e", "x", "e", "c">>,
      <<"r", "u", "n">>,
      <<"u", "p">>,
      <<"-", "T">>,
      <<"-", "-", "n", "o", "-", "T", "T", "Y">>,
      <<"-", "d">>,
      <<"w", "e", "b">>,
      <<"s", "h">> }

\* the sequences of at most n words
RECURSIVE WordSeqs(_)
WordSeqs(n) ==
    IF n = 0 THEN {<<>>}
    ELSE WordSeqs(n - 1) \cup
         {Append(q, w) : q \in {x \in WordSeqs(n - 1) : Len(x) = n - 1}, w \in ComposeWords}

\* docker-compose command lines: the program and words separated by one space
ComposeCommands ==
    {Join(<<<<"d", "o", "c", "k", "e", "r", "-", "c", "o", "m", "p", "o", "s", "e">>>> \o q, <<" ">>) : q \in WordSeqs(MaxWords)}

\* first tokens, the text before them and the text after them
FirstTokens ==
    { <<"d", "o", "c", "k", "e", "r">>,
      <<"d", "o", "c", "k", "e", "r", "-", "c", "o", "m", "p", "o", "s", "e">>,
      <<"l", "s">>,
      <<"s", "h">>,
      <<"d", "o", "c", "k", "e", "r", "d">>,
      <<"D", "o", "c", "k", "e", "r">>,
      <<"/", "u", "s", "r", "/", "b", "i", "n", "/", "d", "o", "c", "k", "e", "r">>,
      <<".", "/", "d", "o", "c", "k", "e", "r">>,
      <<"/", "b", "i", "n", "/", "s", "h">>,
      <<"d", "o", "c", "k", "e", "r", "/", "s", "h">> }
LeadingSpace == { <<>>, <<" ">>, <<"\t">> }
ArgumentTails == { <<>>, <<" ", "p", "s">>, <<" ", "r", "u", "n", " ", "i", "m", "g">> }

\* command lines of any program
ProgramCommands ==
    {l \o t \o a : l \in LeadingSpace, t \in FirstTokens, a \in ArgumentTails}

\* empty and whitespace-only lines
BlankCommands == { <<>>, <<" ">>, <<" ", "\t", " ">>, <<"\n">> }

\* command lines free of blocked characters
PlainCommands ==
    { <<"d", "o", "c", "k", "e", "r", " ", "p", "s">>,
      <<"d", "o", "c", "k", "e", "r", "-", "c", "o", "m", "p", "o", "s", "e", " ", "u", "p", " ", "-", "d">>,
      <<"l", "s">> }

\* s with character c put before position i
InsertAt(s, i, c) == SubSeq(s, 1, i - 1) \o <<c>> \o SubSeq(s, i, Len(s))

\* the shell metacharacters submitted: newline, carriage return, > < | $,
\* back quote, ; and &
MetaChars == {"\n", "\r", ">", "<", "|", "$", "backquote", ";", "&"}

\* a plain command line with one metacharacter at any position
MetaCommands ==
    UNION {{InsertAt(b, i, c) : i \in 1..(Len(b) + 1), c \in MetaChars} : b \in PlainCommands}

\* command lines with a chaining operator
ChainCommands ==
    { <<"d", "o", "c", "k", "e", "r", " ", "p", "s", " ", "&", "&", " ", "l", "s">>,
      <<"d", "o", "c", "k", "e", "r", " ", "p", "s", " ", "|", "|", " ", "l", "s">>,
      <<"d", "o", "c", "k", "e", "r", "-", "c", "o", "m", "p", "o", "s", "e", " ", "u", "p", "&", "&", "l", "s">> }

\* a command line of any kind is submitted to the shell tool
LineInit ==
    /\ AgentIdle
    /\ PathIdle
    /\ DispatchIdle
    /\ RepIdle
    /\ RunToolIdle
    /\ RecipeIdle
    /\ shCmd \in ComposeCommands \cup ProgramCommands \cup BlankCommands
                 \cup MetaCommands \cup ChainCommands
    /\ shPc = "called"
    /\ shErr = NoError
    /\ procs = <<>>

LineNext ==
    \/ ShellExecute /\ UNCHANGED nonShellVars

\* one call of the shell tool on a command line of any kind
SpecLine == LineInit /\ [][LineNext]_vars

-----------------------------------------------------------------------------
(* A ToolDispatcher of its own, given inspectors by SetInspectors *)

\* the inspectors without state
StatelessInspectors == {"security", "syntax", "content"}

\* the lists of distinct inspectors SetInspectors is called with
Pipelines ==
    {<<>>} \cup {<<a>> : a \in StatelessInspectors}
    \cup {q \in StatelessInspectors \X StatelessInspectors : q[1] # q[2]}
    \cup {q \in StatelessInspectors \X StatelessInspectors \X StatelessInspectors :
             q[1] # q[2] /\ q[1] # q[3] /\ q[2] # q[3]}

\* the contents written
FileContents ==
    { <<"F", "R", "O", "M", " ", "a", "\n", "R", "U", "N", " ", "b">>,
      <<"R", "U", "N", " ", "b">>,
      <<"R", "U", "N", " ", "b", " ", "\\", "\n", "f", "r", "o", "m", " ", "a">>,
      <<"F", "R", "O", "M", " ", "a", "\n", "R", "U", "N", " ", "b", " ", "\\", "\n", "c">>,
      <<>>,
      <<"F", "R", "O", "M", " ", "a", "\n", "T", "O", "D", "O", ":", " ", "b">>,
      <<"F", "R", "O", "M", " ", "a", "\n", "C", "O", "P", "P", "Y", " ", "b">> }

\* the tool calls submitted to Execute: <<tool, args>>
ToolCalls ==
    {<<"file_write", [path |-> p, content |-> c]>> : p \in DispatchPaths, c \in FileContents}
    \cup {<<"shell", [command |-> c]>> : c \in {<<"d", "o", "c", "k", "e", "r", " ", "p", "s">>, <<"r", "m", " ", "-", "r", "f", " ", "/">>}}
    \cup {<<"docker_run", [image |-> <<"i", "m", "g">>, privileged |-> b]>> : b \in BOOLEAN}
    \cup {<<"deploy", [target |-> <<"p", "r", "o", "d">>]>>}

\* tool.Execute of the tool invoked: the files, the spawned commands and
\* the error it may end with.  The working directory holds no symlink, so
\* securePath refuses exactly the absolute paths among DispatchPaths.
ToolOutcomes(tool, args, files, spawned) ==
    CASE tool = "file_write" ->
           IF Arg(args, "path", <<>>) = <<>>
           THEN {[files |-> files, procs |-> spawned, err |-> <<"path is required">>]}
           ELSE IF IsAbs(args.path)
           THEN {[files |-> files, procs |-> spawned,
                  err |-> <<"absolute paths are not allowed: ">> \o args.path]}
           ELSE {[files |-> [files EXCEPT ![args.path] = Arg(args, "content", <<>>)],
                  procs |-> spawned, err |-> NoError]}
      [] tool = "shell" ->
           IF ShellRefusal(Arg(args, "command", <<>>)) # NoError
           THEN {[files |-> files, procs |-> spawned,
                  err |-> ShellRefusal(Arg(args, "command", <<>>))]}
           ELSE {[files |-> files, procs |-> Append(spawned, args.command), err |-> e] :
                    e \in RunErrors}
      [] OTHER ->
           {[files |-> files, procs |-> spawned, err |-> e] : e \in {NoError, <<"tool failed">>}}

\* a dispatcher made by NewToolDispatcher, in an empty working directory
DispatchInit ==
    /\ AgentIdle
    /\ PathIdle
    /\ ShellIdle
    /\ RepIdle
    /\ RunToolIdle
    /\ RecipeIdle
    /\ tdLog = <<>>
    /\ tdFiles = [p \in DispatchPaths |-> NoFile]

(* ToolDispatcher.SetInspectors, part_019:152-154 *)
SetInspectors(list) ==
    /\ tdInspectors' = list
    /\ UNCHANGED <<received, cfgMaxAttempts, maxAttempts, aInspectors, events, pc, attempt,
                   instructions, cur, result, cancelled, workDir, genCalls, fsLog,
                   toolCalls, stepLog>>
    /\ UNCHANGED <<pathVars, shellVars, dispatchVars, repVars, runToolVars, recipeVars>>

(* ToolDispatcher.Execute, part_019:157-171 *)
DispatchExecute(tool, args) ==
    /\ Len(tdLog) < MaxDispatchCalls
    /\ LET d == Dispatch(tdInspectors, tool, args)
           call == [tool |-> tool, args |-> args, pipeline |-> tdInspectors,
                    inspectedBy |-> d.inspectedBy, invoked |-> d.invoked] IN
       IF ~d.invoked
       THEN /\ tdLog' = Append(tdLog, call @@ [err |-> d.err, changed |-> FALSE])
            /\ UNCHANGED <<tdFiles, procs>>
       ELSE \E o \in ToolOutcomes(tool, args, tdFiles, procs) :
                /\ tdFiles' = o.files
                /\ procs' = o.procs
                /\ tdLog' = Append(tdLog, call @@ [err |-> o.err,
                                                   changed |-> o.files # tdFiles \/ o.procs # procs])
    /\ UNCHANGED <<agentVars, pathVars, repVars, runToolVars, recipeVars, shCmd, shPc, shErr>>

DispatchNext ==
    \/ \E list \in Pipelines : SetInspectors(list)
    \/ \E c \in ToolCalls : DispatchExecute(c[1], c[2])

\* Execute calls on a dispatcher whose pipeline SetInspectors configures
SpecDispatch == DispatchInit /\ [][DispatchNext]_vars

-----------------------------------------------------------------------------
(* Repetition Inspector *)

\* NewRepetitionInspector: the maxReps of the inspector (inspectors.go:131-133)
NewRepMaxReps(cfg) == IF cfg = 0 THEN DefaultMaxReps ELSE cfg

\* an argument value and its %v text: the text does not tell an int from a
\* string
IntValue(text) == [kind |-> "int", text |-> text]
StringValue(text) == [kind |-> "string", text |-> text]

\* fmt.Sprintf("%s:%v", tool, args) (inspectors.go:144): the map is printed
\* with its keys in sorted order, each value by its %v text
Signature(tool, args) ==
    <<tool, ":", [k \in DOMAIN args |-> args[k].text]>>

\* a threshold test that lets one more call through
ReachedThreshold_Late(count, maxReps) == count > maxReps

\* RepetitionInspector.Inspect: the test of the count (inspectors.go:154)
ReachedThreshold(count, maxReps) == count >= maxReps

\* RepetitionInspector.Inspect (inspectors.go:142-167): the history after
\* the call and the error returned
RepetitionInspect(history, maxReps, tool, args) ==
    LET sig == Signature(tool, args)
        count == Cardinality({k \in 1..Len(history) : history[k] = sig})
        added == Append(history, sig) IN
    IF ReachedThreshold(count, maxReps)
    THEN [history |-> history,
          err |-> <<"detected repetitive pattern (same call made ", count, " times)">>]
    ELSE [history |-> IF Len(added) > HistoryCap
                      THEN SubSeq(added, HistoryDrop + 1, Len(added))
                      ELSE added,
          err |-> NoError]

\* the calls submitted to the inspector
RepCalls ==
    { <<"shell", [command |-> StringValue("docker ps")]>>,
      <<"docker_run", [image |-> StringValue("img"), timeout |-> IntValue("30")]>>,
      <<"docker_run", [image |-> StringValue("img"), timeout |-> StringValue("30")]>> }

\* a RepetitionInspector made by NewRepetitionInspector and the call that
\* is going to be repeated
RepInit ==
    /\ AgentIdle
    /\ PathIdle
    /\ ShellIdle
    /\ DispatchIdle
    /\ RunToolIdle
    /\ RecipeIdle
    /\ repCfg \in 0..MaxThreshold
    /\ repMaxReps = NewRepMaxReps(repCfg)
    /\ repCall \in RepCalls
    /\ repHistory = <<>>
    /\ repLog = <<>>

(* RepetitionInspector.Inspect, inspectors.go:142-167 *)
RepInspect ==
    /\ Len(repLog) < MaxRepCalls
    /\ LET r == RepetitionInspect(repHistory, repMaxReps, repCall[1], repCall[2]) IN
       /\ repHistory' = r.history
       /\ repLog' = Append(repLog, r.err = NoError)
    /\ UNCHANGED <<repCfg, repCall, repMaxReps>>

RepNext ==
    \/ RepInspect /\ UNCHANGED nonRepVars

\* identical calls submitted to one RepetitionInspector
SpecRepetition == RepInit /\ [][RepNext]_vars

\* the k-th other call: docker_stop of a container of its own, so that no
\* other call repeats
OtherCall(k) == <<"docker_stop", [container |-> StringValue(k)]>>

\* the other calls the history holds
OthersIn(history) ==
    Cardinality({i \in 1..Len(history) : history[i][1] = "docker_stop"})

\* a RepetitionInspector with maxReps 1 and the call that is watched; in
\* repLog the outcomes of the watched call only, and as its first entry the
\* number of other calls made so far
InterleavedInit ==
    /\ AgentIdle
    /\ PathIdle
    /\ ShellIdle
    /\ DispatchIdle
    /\ RunToolIdle
    /\ RecipeIdle
    /\ repCfg = 1
    /\ repMaxReps = NewRepMaxReps(repCfg)
    /\ repCall \in RepCalls
    /\ repHistory = <<>>
    /\ repLog = <<0>>

(* RepetitionInspector.Inspect, inspectors.go:142-167, of the watched call *)
InspectWatched ==
    /\ Len(repLog) <= MaxWatchedCalls
    /\ LET r == RepetitionInspect(repHistory, repMaxReps, repCall[1], repCall[2]) IN
       /\ repHistory' = r.history
       /\ repLog' = Append(repLog, IF r.err = NoError THEN 1 ELSE 0)
    /\ UNCHANGED <<repCfg, repCall, repMaxReps>>

(* RepetitionInspector.Inspect, inspectors.go:142-167, of another call *)
InspectOther ==
    /\ repLog[1] < MaxOtherCalls
    /\ LET c == OtherCall(repLog[1] + 1)
           r == RepetitionInspect(repHistory, repMaxReps, c[1], c[2]) IN
       /\ repHistory' = r.history
       /\ repLog' = [repLog EXCEPT ![1] = @ + 1]
    /\ UNCHANGED <<repCfg, repCall, repMaxReps>>

InterleavedNext ==
    \/ InspectWatched /\ UNCHANGED nonRepVars
    \/ InspectOther /\ UNCHANGED nonRepVars

\* one call submitted again and again to a RepetitionInspector, with other
\* calls between
SpecInterleaved == InterleavedInit /\ [][InterleavedNext]_vars

-----------------------------------------------------------------------------
(* The docker_run tool: DockerRunTool.Execute, part_019:247-302 *)

\* the image arguments handed to docker_run; "" is a missing image
RunImages == {"", "dockerize-test:latest"}

\* the timeout arguments handed to docker_run: none, an int, a string
RunTimeouts ==
    { [kind |-> "absent", value |-> 0],
      [kind |-> "int", value |-> 5],
      [kind |-> "string", value |-> 5] }

\* Execute: the seconds waited before the status poll (part_019:253-256)
WaitSeconds(timeout) ==
    IF timeout.kind = "int" THEN timeout.value ELSE DefaultRunTimeout

\* what docker inspect prints as the status of the container
ContainerStatuses == {"running", "exited", "created"}

\* exec.CommandContext(ctx, ...).Run() of the command name: the record of
\* the call; with the context done the command is not started
Issued(name, outcome) ==
    [cmd |-> name, spawned |-> outcome # "ctx", ok |-> outcome = "ok"]

\* a docker_run that returns right after the logs are captured
AfterLogs_NoCleanup == "returned"

\* Execute: the step after docker logs (part_019:287-288)
AfterLogs == "remove_force"

\* Execute: the step after the status poll (part_019:278-296): the logs are
\* captured only when the poll succeeded and the status is not running
AfterInspect(pollOk, status) ==
    IF pollOk /\ status # "running" THEN "logs" ELSE "stop"

\* docker_run is called with an image
RunToolInit ==
    /\ AgentIdle
    /\ PathIdle
    /\ ShellIdle
    /\ DispatchIdle
    /\ RepIdle
    /\ RecipeIdle
    /\ \E image \in RunImages, timeout \in RunTimeouts :
          dr = [pc |-> "called", image |-> image, timeout |-> timeout,
                cancelled |-> FALSE, waited |-> 0, cmds |-> <<>>,
                poll |-> "none", status |-> "", output |-> "", err |-> ""]

(* Execute, part_019:247-270: the image is required; the container is
   started detached *)
DrStart ==
    /\ dr.pc = "called"
    /\ IF dr.image = ""
       THEN dr' = [dr EXCEPT !.pc = "returned", !.err = "image is required"]
       ELSE \E o \in CmdOutcomes(dr.cancelled) :
              IF o = "ok"
              THEN dr' = [dr EXCEPT !.pc = "waiting",
                                    !.cmds = Append(@, Issued("run -d", o))]
              ELSE dr' = [dr EXCEPT !.pc = "returned",
                                    !.cmds = Append(@, Issued("run -d", o)),
                                    !.output = "run output",
                                    !.err = "docker run failed"]

(* Execute, part_019:272-280: after the wait the status is polled *)
DrInspect ==
    /\ dr.pc = "waiting"
    /\ \E o \in CmdOutcomes(dr.cancelled), status \in ContainerStatuses :
          dr' = [dr EXCEPT !.pc = AfterInspect(o = "ok", status),
                           !.waited = WaitSeconds(dr.timeout),
                           !.cmds = Append(@, Issued("inspect", o)),
                           !.poll = o,
                           !.status = IF o = "ok" THEN status ELSE ""]

(* Execute, part_019:281-286: the logs of a container that is not running *)
DrLogs ==
    /\ dr.pc = "logs"
    /\ \E o \in CmdOutcomes(dr.cancelled) :
          dr' = [dr EXCEPT !.pc = AfterLogs,
                           !.cmds = Append(@, Issued("logs", o)),
                           !.output = IF o = "ctx" THEN "" ELSE "container logs"]

(* Execute, part_019:288-290: docker rm -f, and the error is returned *)
DrRemoveForce ==
    /\ dr.pc = "remove_force"
    /\ \E o \in CmdOutcomes(dr.cancelled) :
          dr' = [dr EXCEPT !.pc = "returned",
                           !.cmds = Append(@, Issued("rm -f", o)),
                           !.err = "container exited with status"]

(* Execute, part_019:295: docker stop *)
DrStop ==
    /\ dr.pc = "stop"
    /\ \E o \in CmdOutcomes(dr.cancelled) :
          dr' = [dr EXCEPT !.pc = "remove",
                           !.cmds = Append(@, Issued("stop", o))]

(* Execute, part_019:296-298: docker rm, and success is returned *)
DrRemove ==
    /\ dr.pc = "remove"
    /\ \E o \in CmdOutcomes(dr.cancelled) :
          dr' = [dr EXCEPT !.pc = "returned",
                           !.cmds = Append(@, Issued("rm", o)),
                           !.output = "Container started and ran successfully",
                           !.err = ""]

(* the context handed to Execute is cancelled, at any moment of the call *)
DrCancel ==
    /\ dr.pc \notin {"returned"}
    /\ ~dr.cancelled
    /\ dr' = [dr EXCEPT !.cancelled = TRUE]

RunToolNext ==
    \/ DrStart /\ UNCHANGED nonRunToolVars
    \/ DrInspect /\ UNCHANGED nonRunToolVars
    \/ DrLogs /\ UNCHANGED nonRunToolVars
    \/ DrRemoveForce /\ UNCHANGED nonRunToolVars
    \/ DrStop /\ UNCHANGED nonRunToolVars
    \/ DrRemove /\ UNCHANGED nonRunToolVars
    \/ DrCancel /\ UNCHANGED nonRunToolVars

\* one call of the docker_run tool
SpecRunTool == RunToolInit /\ [][RunToolNext]_vars

-----------------------------------------------------------------------------
(* Docker options written in their two forms *)

\* docker commands that set a namespace option, attached with = or as the
\* following token, to host or to something else
NamespaceCommands ==
    { <<"d", "o", "c", "k", "e", "r", " ", "r", "u", "n", " ", "-", "-", "p", "i", "d", "=", "h", "o", "s", "t", " ", "i", "m", "g">>,
      <<"d", "o", "c", "k", "e", "r", " ", "r", "u", "n", " ", "-", "-", "p", "i", "d", " ", "h", "o", "s", "t", " ", "i", "m", "g">>,
      <<"d", "o", "c", "k", "e", "r", " ", "r", "u", "n", " ", "-", "-", "n", "e", "t", "w", "o", "r", "k", "=", "h", "o", "s", "t", " ", "i", "m", "g">>,
      <<"d", "o", "c", "k", "e", "r", " ", "r", "u", "n", " ", "-", "-", "n", "e", "t", "w", "o", "r", "k", " ", "h", "o", "s", "t", " ", "i", "m", "g">>,
      <<"d", "o", "c", "k", "e", "r", " ", "r", "u", "n", " ", "-", "-", "u", "s", "e", "r", "n", "s", "=", "h", "o", "s", "t", " ", "i", "m", "g">>,
      <<"d", "o", "c", "k", "e", "r", " ", "r", "u", "n", " ", "-", "-", "u", "s", "e", "r", "n", "s", " ", "h", "o", "s", "t", " ", "i", "m", "g">>,
      <<"d", "o", "c", "k", "e", "r", " ", "r", "u", "n", " ", "-", "-", "u", "t", "s", "=", "h", "o", "s", "t", " ", "i", "m", "g">>,
      <<"d", "o", "c", "k", "e", "r", " ", "r", "u", "n", " ", "-", "-", "u", "t", "s", " ", "h", "o", "s", "t", " ", "i", "m", "g">>,
      <<"d", "o", "c", "k", "e", "r", " ", "r", "u", "n", " ", "-", "-", "i", "p", "c", "=", "h", "o", "s", "t", " ", "i", "m", "g">>,
      <<"d", "o", "c", "k", "e", "r", " ", "r", "u", "n", " ", "-", "-", "i", "p", "c", " ", "h", "o", "s", "t", " ", "i", "m", "g">>,
      <<"d", "o", "c", "k", "e", "r", " ", "c", "r", "e", "a", "t", "e", " ", "-", "-", "p", "i", "d", "=", "h", "o", "s", "t", " ", "i", "m", "g">>,
      <<"d", "o", "c", "k", "e", "r", " ", "c", "r", "e", "a", "t", "e", " ", "-", "-", "p", "i", "d", " ", "h", "o", "s", "t", " ", "i", "m", "g">>,
      <<"d", "o", "c", "k", "e", "r", " ", "c", "r", "e", "a", "t", "e", " ", "-", "-", "n", "e", "t", "w", "o", "r", "k", "=", "h", "o", "s", "t", " ", "i", "m", "g">>,
      <<"d", "o", "c", "k", "e", "r", " ", "c", "r", "e", "a", "t", "e", " ", "-", "-", "n", "e", "t", "w", "o", "r", "k", " ", "h", "o", "s", "t", " ", "i", "m", "g">>,
      <<"d", "o", "c", "k", "e", "r", " ", "c", "r", "e", "a", "t", "e", " ", "-", "-", "u", "s", "e", "r", "n", "s", "=", "h", "o", "s", "t", " ", "i", "m", "g">>,
      <<"d", "o", "c", "k", "e", "r", " ", "c", "r", "e", "a", "t", "e", " ", "-", "-", "u", "s", "e", "r", "n", "s", " ", "h", "o", "s", "t", " ", "i", "m", "g">>,
      <<"d", "o", "c", "k", "e", "r", " ", "c", "r", "e", "a", "t", "e", " ", "-", "-", "u", "t", "s", "=", "h", "o", "s", "t", " ", "i", "m", "g">>,
      <<"d", "o", "c", "k", "e", "r", " ", "c", "r", "e", "a", "t", "e", " ", "-", "-", "u", "t", "s", " ", "h", "o", "s", "t", " ", "i", "m", "g">>,
      <<"d", "o", "c", "k", "e", "r", " ", "c", "r", "e", "a", "t", "e", " ", "-", "-", "i", "p", "c", "=", "h", "o", "s", "t", " ", "i", "m", "g">>,
      <<"d", "o", "c", "k", "e", "r", " ", "c", "r", "e", "a", "t", "e", " ", "-", "-", "i", "p", "c", " ", "h", "o", "s", "t", " ", "i", "m", "g">>,
      <<"d", "o", "c", "k", "e", "r", " ", "r", "u", "n", " ", "-", "-", "n", "e", "t", "w", "o", "r", "k", "=", "b", "r", "i", "d", "g", "e", " ", "i", "m", "g">>,
      <<"d", "o", "c", "k", "e", "r", " ", "r", "u", "n", " ", "-", "-", "n", "e", "t", "w", "o", "r", "k", " ", "b", "r", "i", "d", "g", "e", " ", "i", "m", "g">>,
      <<"d", "o", "c", "k", "e", "r", " ", "r", "u", "n", " ", "-", "-", "p", "i", "d", " ", "c", "o", "n", "t", "a", "i", "n", "e", "r", ":", "d", "b", " ", "i", "m", "g">>,
      <<"d", "o", "c", "k", "e", "r", " ", "r", "u", "n", " ", "i", "m", "g", " ", "h", "o", "s", "t">> }

\* docker commands with a --mount option, attached with = or as the
\* following token
MountCommands ==
    { <<"d", "o", "c", "k", "e", "r", " ", "r", "u", "n", " ", "-", "-", "m", "o", "u", "n", "t", "=", "t", "y", "p", "e", "=", "b", "i", "n", "d", ",", "s", "o", "u", "r", "c", "e", "=", "/", "e", "t", "c", ",", "t", "a", "r", "g", "e", "t", "=", "/", "d", " ", "i", "m", "g">>,
      <<"d", "o", "c", "k", "e", "r", " ", "r", "u", "n", " ", "-", "-", "m", "o", "u", "n", "t", " ", "t", "y", "p", "e", "=", "b", "i", "n", "d", ",", "s", "o", "u", "r", "c", "e", "=", "/", "e", "t", "c", ",", "t", "a", "r", "g", "e", "t", "=", "/", "d", " ", "i", "m", "g">>,
      <<"d", "o", "c", "k", "e", "r", " ", "r", "u", "n", " ", "-", "-", "m", "o", "u", "n", "t", "=", "s", "o", "u", "r", "c", "e", "=", "/", "e", "t", "c", ",", "t", "a", "r", "g", "e", "t", "=", "/", "d", ",", "t", "y", "p", "e", "=", "b", "i", "n", "d", " ", "i", "m", "g">>,
      <<"d", "o", "c", "k", "e", "r", " ", "r", "u", "n", " ", "-", "-", "m", "o", "u", "n", "t", "=", "t", "y", "p", "e", "=", "b", "i", "n", "d", ",", "s", "o", "u", "r", "c", "e", "=", "/", "e", "t", "c", "/", "p", "a", "s", "s", "w", "d", ",", "t", "a", "r", "g", "e", "t", "=", "/", "d", " ", "i", "m", "g">>,
      <<"d", "o", "c", "k", "e", "r", " ", "r", "u", "n", " ", "-", "-", "m", "o", "u", "n", "t", " ", "t", "y", "p", "e", "=", "b", "i", "n", "d", ",", "s", "o", "u", "r", "c", "e", "=", "/", "e", "t", "c", "/", "p", "a", "s", "s", "w", "d", ",", "t", "a", "r", "g", "e", "t", "=", "/", "d", " ", "i", "m", "g">>,
      <<"d", "o", "c", "k", "e", "r", " ", "r", "u", "n", " ", "-", "-", "m", "o", "u", "n", "t", "=", "s", "o", "u", "r", "c", "e", "=", "/", "e", "t", "c", "/", "p", "a", "s", "s", "w", "d", ",", "t", "a", "r", "g", "e", "t", "=", "/", "d", ",", "t", "y", "p", "e", "=", "b", "i", "n", "d", " ", "i", "m", "g">>,
      <<"d", "o", "c", "k", "e", "r", " ", "r", "u", "n", " ", "-", "-", "m", "o", "u", "n", "t", "=", "t", "y", "p", "e", "=", "b", "i", "n", "d", ",", "s", "o", "u", "r", "c", "e", "=", "/", "h", "o", "m", "e", "/", "u", ",", "t", "a", "r", "g", "e", "t", "=", "/", "d", " ", "i", "m", "g">>,
      <<"d", "o", "c", "k", "e", "r", " ", "r", "u", "n", " ", "-", "-", "m", "o", "u", "n", "t", " ", "t", "y", "p", "e", "=", "b", "i", "n", "d", ",", "s", "o", "u", "r", "c", "e", "=", "/", "h", "o", "m", "e", "/", "u", ",", "t", "a", "r", "g", "e", "t", "=", "/", "d", " ", "i", "m", "g">>,
      <<"d", "o", "c", "k", "e", "r", " ", "r", "u", "n", " ", "-", "-", "m", "o", "u", "n", "t", "=", "s", "o", "u", "r", "c", "e", "=", "/", "h", "o", "m", "e", "/", "u", ",", "t", "a", "r", "g", "e", "t", "=", "/", "d", ",", "t", "y", "p", "e", "=", "b", "i", "n", "d", " ", "i", "m", "g">>,
      <<"d", "o", "c", "k", "e", "r", " ", "r", "u", "n", " ", "-", "-", "m", "o", "u", "n", "t", "=", "t", "y", "p", "e", "=", "b", "i", "n", "d", ",", "s", "o", "u", "r", "c", "e", "=", "/", ",", "t", "a", "r", "g", "e", "t", "=", "/", "d", " ", "i", "m", "g">>,
      <<"d", "o", "c", "k", "e", "r", " ", "r", "u", "n", " ", "-", "-", "m", "o", "u", "n", "t", " ", "t", "y", "p", "e", "=", "b", "i", "n", "d", ",", "s", "o", "u", "r", "c", "e", "=", "/", ",", "t", "a", "r", "g", "e", "t", "=", "/", "d", " ", "i", "m", "g">>,
      <<"d", "o", "c", "k", "e", "r", " ", "r", "u", "n", " ", "-", "-", "m", "o", "u", "n", "t", "=", "s", "o", "u", "r", "c", "e", "=", "/", ",", "t", "a", "r", "g", "e", "t", "=", "/", "d", ",", "t", "y", "p", "e", "=", "b", "i", "n", "d", " ", "i", "m", "g">>,
      <<"d", "o", "c", "k", "e", "r", " ", "r", "u", "n", " ", "-", "-", "m", "o", "u", "n", "t", "=", "t", "y", "p", "e", "=", "b", "i", "n", "d", ",", "s", "o", "u", "r", "c", "e", "=", "/", "w", "/", "d", "a", "t", "a", ",", "t", "a", "r", "g", "e", "t", "=", "/", "d", " ", "i", "m", "g">>,
      <<"d", "o", "c", "k", "e", "r", " ", "r", "u", "n", " ", "-", "-", "m", "o", "u", "n", "t", " ", "t", "y", "p", "e", "=", "b", "i", "n", "d", ",", "s", "o", "u", "r", "c", "e", "=", "/", "w", "/", "d", "a", "t", "a", ",", "t", "a", "r", "g", "e", "t", "=", "/", "d", " ", "i", "m", "g">>,
      <<"d", "o", "c", "k", "e", "r", " ", "r", "u", "n", " ", "-", "-", "m", "o", "u", "n", "t", "=", "s", "o", "u", "r", "c", "e", "=", "/", "w", "/", "d", "a", "t", "a", ",", "t", "a", "r", "g", "e", "t", "=", "/", "d", ",", "t", "y", "p", "e", "=", "b", "i", "n", "d", " ", "i", "m", "g">>,
      <<"d", "o", "c", "k", "e", "r", " ", "r", "u", "n", " ", "-", "-", "m", "o", "u", "n", "t", "=", "t", "y", "p", "e", "=", "b", "i", "n", "d", ",", "s", "o", "u", "r", "c", "e", "=", "/", "w", "/", ".", ".", "/", "e", "t", "c", ",", "t", "a", "r", "g", "e", "t", "=", "/", "d", " ", "i", "m", "g">>,
      <<"d", "o", "c", "k", "e", "r", " ", "r", "u", "n", " ", "-", "-", "m", "o", "u", "n", "t", " ", "t", "y", "p", "e", "=", "b", "i", "n", "d", ",", "s", "o", "u", "r", "c", "e", "=", "/", "w", "/", ".", ".", "/", "e", "t", "c", ",", "t", "a", "r", "g", "e", "t", "=", "/", "d", " ", "i", "m", "g">>,
      <<"d", "o", "c", "k", "e", "r", " ", "r", "u", "n", " ", "-", "-", "m", "o", "u", "n", "t", "=", "s", "o", "u", "r", "c", "e", "=", "/", "w", "/", ".", ".", "/", "e", "t", "c", ",", "t", "a", "r", "g", "e", "t", "=", "/", "d", ",", "t", "y", "p", "e", "=", "b", "i", "n", "d", " ", "i", "m", "g">>,
      <<"d", "o", "c", "k", "e", "r", " ", "r", "u", "n", " ", "-", "-", "m", "o", "u", "n", "t", "=", "t", "y", "p", "e", "=", "b", "i", "n", "d", ",", "s", "o", "u", "r", "c", "e", "=", "/", "w", "2", ",", "t", "a", "r", "g", "e", "t", "=", "/", "d", " ", "i", "m", "g">>,
      <<"d", "o", "c", "k", "e", "r", " ", "r", "u", "n", " ", "-", "-", "m", "o", "u", "n", "t", " ", "t", "y", "p", "e", "=", "b", "i", "n", "d", ",", "s", "o", "u", "r", "c", "e", "=", "/", "w", "2", ",", "t", "a", "r", "g", "e", "t", "=", "/", "d", " ", "i", "m", "g">>,
      <<"d", "o", "c", "k", "e", "r", " ", "r", "u", "n", " ", "-", "-", "m", "o", "u", "n", "t", "=", "s", "o", "u", "r", "c", "e", "=", "/", "w", "2", ",", "t", "a", "r", "g", "e", "t", "=", "/", "d", ",", "t", "y", "p", "e", "=", "b", "i", "n", "d", " ", "i", "m", "g">>,
      <<"d", "o", "c", "k", "e", "r", " ", "r", "u", "n", " ", "-", "-", "m", "o", "u", "n", "t", "=", "t", "y", "p", "e", "=", "b", "i", "n", "d", ",", "s", "o", "u", "r", "c", "e", "=", "/", "v", "a", "r", "/", "r", "u", "n", "/", "d", "o", "c", "k", "e", "r", ".", "s", "o", "c", "k", ",", "t", "a", "r", "g", "e", "t", "=", "/", "d", " ", "i", "m", "g">>,
      <<"d", "o", "c", "k", "e", "r", " ", "r", "u", "n", " ", "-", "-", "m", "o", "u", "n", "t", " ", "t", "y", "p", "e", "=", "b", "i", "n", "d", ",", "s", "o", "u", "r", "c", "e", "=", "/", "v", "a", "r", "/", "r", "u", "n", "/", "d", "o", "c", "k", "e", "r", ".", "s", "o", "c", "k", ",", "t", "a", "r", "g", "e", "t", "=", "/", "d", " ", "i", "m", "g">>,
      <<"d", "o", "c", "k", "e", "r", " ", "r", "u", "n", " ", "-", "-", "m", "o", "u", "n", "t", "=", "s", "o", "u", "r", "c", "e", "=", "/", "v", "a", "r", "/", "r", "u", "n", "/", "d", "o", "c", "k", "e", "r", ".", "s", "o", "c", "k", ",", "t", "a", "r", "g", "e", "t", "=", "/", "d", ",", "t", "y", "p", "e", "=", "b", "i", "n", "d", " ", "i", "m", "g">>,
      <<"d", "o", "c", "k", "e", "r", " ", "r", "u", "n", " ", "-", "-", "m", "o", "u", "n", "t", "=", "t", "y", "p", "e", "=", "b", "i", "n", "d", ",", "s", "o", "u", "r", "c", "e", "=", "d", "a", "t", "a", ",", "t", "a", "r", "g", "e", "t", "=", "/", "d", " ", "i", "m", "g">>,
      <<"d", "o", "c", "k", "e", "r", " ", "r", "u", "n", " ", "-", "-", "m", "o", "u", "n", "t", " ", "t", "y", "p", "e", "=", "b", "i", "n", "d", ",", "s", "o", "u", "r", "c", "e", "=", "d", "a", "t", "a", ",", "t", "a", "r", "g", "e", "t", "=", "/", "d", " ", "i", "m", "g">>,
      <<"d", "o", "c", "k", "e", "r", " ", "r", "u", "n", " ", "-", "-", "m", "o", "u", "n", "t", "=", "s", "o", "u", "r", "c", "e", "=", "d", "a", "t", "a", ",", "t", "a", "r", "g", "e", "t", "=", "/", "d", ",", "t", "y", "p", "e", "=", "b", "i", "n", "d", " ", "i", "m", "g">>,
      <<"d", "o", "c", "k", "e", "r", " ", "r", "u", "n", " ", "-", "-", "m", "o", "u", "n", "t", "=", "t", "y", "p", "e", "=", "v", "o", "l", "u", "m", "e", ",", "s", "o", "u", "r", "c", "e", "=", "v", "o", "l", ",", "t", "a", "r", "g", "e", "t", "=", "/", "d", " ", "i", "m", "g">>,
      <<"d", "o", "c", "k", "e", "r", " ", "r", "u", "n", " ", "-", "-", "m", "o", "u", "n", "t", " ", "t", "y", "p", "e", "=", "t", "m", "p", "f", "s", ",", "t", "a", "r", "g", "e", "t", "=", "/", "d", " ", "i", "m", "g">> }

\* a docker command with a namespace or a --mount option is submitted to the
\* shell tool
OptionsInit ==
    /\ AgentIdle
    /\ PathIdle
    /\ DispatchIdle
    /\ RepIdle
    /\ RunToolIdle
    /\ RecipeIdle
    /\ shCmd \in NamespaceCommands \cup MountCommands
    /\ shPc = "called"
    /\ shErr = NoError
    /\ procs = <<>>

OptionsNext ==
    \/ ShellExecute /\ UNCHANGED nonShellVars

\* one call of the shell tool on a docker command with such an option
SpecOptions == OptionsInit /\ [][OptionsNext]_vars

-----------------------------------------------------------------------------
(* Recipe Executor *)

\* the on_error values of a step: the three the Step type documents
\* (recipe.go:28) and the empty one of a step without on_error
OnErrors == {"", "continue", "retry", "fail"}

\* the variables of the recipe and the conditions of its steps: none, or
\* a comparison var == value written as <<var, value>>
RecipeVariables == [env |-> "prod"]
Conditions == {<<>>, <<"env", "prod">>, <<"env", "dev">>}

\* the steps a recipe is made of
Steps ==
    [OnError : OnErrors, Retries : 0..MaxRetries, Condition : Conditions]

\* evaluateCondition for var == value (recipe.go:193-201)
EvaluateCondition(cond, vs) ==
    cond[1] \in DOMAIN vs /\ vs[cond[1]] = cond[2]

\* Execute: the retries of the loop of a step (recipe.go:127-130)
RetriesOf(step) == IF step.Retries = 0 THEN 1 ELSE step.Retries

\* Execute: vars["last_output"] = output (recipe.go:162)
StoreOutput(vs, output) ==
    [k \in DOMAIN vs \cup {"last_output"} |->
        IF k = "last_output" THEN output ELSE vs[k]]

\* a StepResult with its zero values (recipe.go:124-125)
NewStepResult == [Success |-> FALSE, Output |-> "", Error |-> NoError]

\* Execute is called with a recipe of one to MaxSteps steps
RecipeInit ==
    /\ AgentIdle
    /\ PathIdle
    /\ ShellIdle
    /\ DispatchIdle
    /\ RepIdle
    /\ RunToolIdle
    /\ \E n \in 1..MaxSteps : \E steps \in [1..n -> Steps] :
          rc = [pc |-> "loop", steps |-> steps, i |-> 1, attempt |-> 0,
                retries |-> 0, stepResult |-> NewStepResult,
                vars |-> RecipeVariables,
                result |-> [Success |-> FALSE, Steps |-> <<>>],
                err |-> NoError, calls |-> <<>>]

(* Execute, recipe.go:113-130: the head of the loop over the steps for a
   step that is left: its condition, and the retries of its loop *)
RcBegin ==
    /\ rc.pc = "loop"
    /\ rc.i <= Len(rc.steps)
    /\ LET step == rc.steps[rc.i] IN
       IF step.Condition # <<>> /\ ~EvaluateCondition(step.Condition, rc.vars)
       THEN rc' = [rc EXCEPT !.i = @ + 1]
       ELSE rc' = [rc EXCEPT !.stepResult = NewStepResult,
                             !.retries = RetriesOf(step),
                             !.attempt = 0,
                             !.calls = Append(@, [step |-> rc.i, tries |-> 0]),
                             !.pc = IF RetriesOf(step) > 0 THEN "try" ELSE "handle"]

(* Execute, recipe.go:132-146: one toolExecutor.Execute of the step *)
RcTry ==
    /\ rc.pc = "try"
    /\ \E ok \in BOOLEAN :
         rc' = [rc EXCEPT
                  !.calls[Len(rc.calls)].tries = @ + 1,
                  !.stepResult =
                      IF ok
                      THEN [@ EXCEPT !.Output = "output", !.Success = TRUE]
                      ELSE [@ EXCEPT !.Output = "error output",
                                     !.Error = <<"tool error">>],
                  !.attempt = IF ok THEN @ ELSE @ + 1,
                  !.pc = IF ok \/ rc.attempt + 1 >= rc.retries
                         THEN "handle" ELSE "try"]

(* Execute, recipe.go:148-163: the result of the step is recorded and an
   error handled as on_error says *)
RcHandle ==
    /\ rc.pc = "handle"
    /\ LET step == rc.steps[rc.i]
           steps == Append(rc.result.Steps, rc.stepResult) IN
       IF ~rc.stepResult.Success /\ step.OnError = "continue"
       THEN rc' = [rc EXCEPT !.result.Steps = steps, !.i = @ + 1, !.pc = "loop"]
       ELSE IF ~rc.stepResult.Success /\ step.OnError \in {"fail", ""}
       THEN rc' = [rc EXCEPT !.result = [Success |-> FALSE, Steps |-> steps],
                             !.err = rc.stepResult.Error,
                             !.pc = "returned"]
       ELSE rc' = [rc EXCEPT !.result.Steps = steps,
                             !.vars = StoreOutput(@, rc.stepResult.Output),
                             !.i = @ + 1,
                             !.pc = "loop"]

(* Execute, recipe.go:166-167: no step is left *)
RcFinish ==
    /\ rc.pc = "loop"
    /\ rc.i > Len(rc.steps)
    /\ rc' = [rc EXCEPT !.result.Success = TRUE, !.err = NoError, !.pc = "returned"]

RecipeNext ==
    \/ RcBegin /\ UNCHANGED nonRecipeVars
    \/ RcTry /\ UNCHANGED nonRecipeVars
    \/ RcHandle /\ UNCHANGED nonRecipeVars
    \/ RcFinish /\ UNCHANGED nonRecipeVars

\* one Execute of a recipe
SpecRecipe == RecipeInit /\ [][RecipeNext]_vars

-----------------------------------------------------------------------------
(* Claims on the Agent Loop *)

\* the set of elements of a sequence
Range(s) == {s[i] : i \in 1..Len(s)}

\* C1: during a Run every mutation of the working directory is made by the
\* file_write tool, invoked through ToolDispatcher.Execute after the
\* inspectors approved the call.
C1_WritesOnlyThroughFileWriteTool ==
    \A w \in fsLog :
        /\ w.tool = "file_write"
        /\ w.via = "ToolDispatcher.Execute"

\* C2: in an Agent made by New the Security and Syntax inspectors are in
\* the pipeline of the dispatcher the loop uses: every tool call of the
\* loop that reaches its tool was first submitted to both.
C2_LoopCallsPassBothInspectors ==
    \A i \in 1..Len(toolCalls) :
        toolCalls[i].invoked =>
            {"security", "syntax"} \subseteq Range(toolCalls[i].inspectedBy)

\* C5: once the context is cancelled the loop issues no further step (no
\* generation request, no write, no tool call) and starts no further
\* attempt.
C5_NoStepAfterCancel ==
    [][cancelled => /\ genCalls' = genCalls
                    /\ toolCalls' = toolCalls
                    /\ fsLog' = fsLog
                    /\ (pc = "loop" => pc' # "generate")]_vars

\* C6: when attempts 1..k-1 fail and attempt k succeeds, Run returns
\* Success = true with exactly k Attempt records, runs no attempt after the
\* successful one, and the instructions of attempt k contain the error text
\* recorded on attempt k-1.
C6_SuccessAtAttemptK ==
    pc = "done" =>
        LET A == result.Attempts IN
        /\ result.Success <=> \E i \in 1..Len(A) : A[i].Success
        /\ \A k \in 1..Len(A) :
              A[k].Success =>
                /\ k = Len(A)
                /\ k <= maxAttempts
                /\ Len(genCalls) = k
                /\ \A i \in 1..(k - 1) : ~A[i].Success
                /\ k > 1 => /\ A[k - 1].Error # NoError
                            /\ Contains(genCalls[k], A[k - 1].Error)

\* C6 happens: maxAttempts = 3, attempts 1 and 2 failed at the build step,
\* attempt 3 succeeded
C6_Witness ==
    /\ pc = "done"
    /\ maxAttempts = 3
    /\ result.Success
    /\ Len(result.Attempts) = 3
    /\ HasPrefix(result.Attempts[1].Error, <<"build failed: ">>)
    /\ HasPrefix(result.Attempts[2].Error, <<"build failed: ">>)

\* C7: the number of attempts never exceeds maxAttempts (0 replaced by 5),
\* and when every attempt fails Run returns Success = false with exactly
\* maxAttempts Attempt records.
C7_AttemptsBounded ==
    LET A == result.Attempts
        max == IF cfgMaxAttempts = 0 THEN 5 ELSE cfgMaxAttempts IN
    /\ Len(A) <= max
    /\ Len(genCalls) <= max
    /\ \A e \in Range(stepLog) : e[1] <= max
    /\ (pc = "done" /\ \A i \in 1..Len(A) : ~A[i].Success) =>
          /\ ~result.Success
          /\ Len(A) = max

\* C7 happens: maxAttempts = 2, both attempts failed at the test step
C7_Witness ==
    /\ pc = "done"
    /\ cfgMaxAttempts = 2
    /\ ~result.Success
    /\ Len(result.Attempts) = 2
    /\ \A i \in 1..2 : HasPrefix(result.Attempts[i].Error, <<"test failed: ">>)

\* C7 happens with the default: cfg.MaxAttempts = 0 gives five failed attempts
C7_WitnessDefault ==
    /\ pc = "done"
    /\ cfgMaxAttempts = 0
    /\ Len(result.Attempts) = 5

\* the step an Attempt.Error text names
FailedStepOf(err) ==
    CASE HasPrefix(err, <<"failed to write files: ">>) -> "write"
      [] HasPrefix(err, <<"build failed: ">>)          -> "build"
      [] HasPrefix(err, <<"test failed: ">>)           -> "test"
      [] OTHER                                         -> "generate"

\* the order of the steps of one attempt
StepOrder == <<"generate", "write", "build", "test">>

\* C8: within one attempt the steps executed are a prefix of generate,
\* write, build, test, each at most once; the first failing step ends the
\* attempt and its message is recorded in Attempt.Error; attempt N+1 does
\* not start before attempt N's record is appended to Result.Attempts.
C8_StepsInOrder ==
    LET A == result.Attempts IN
    /\ \A i \in 1..(Len(stepLog) - 1) : stepLog[i][1] <= stepLog[i + 1][1]
    /\ \A i \in 1..Len(stepLog) : Len(A) >= stepLog[i][1] - 1
    /\ \A n \in 1..(Len(A) + 1) :
          LET IsN(e) == e[1] = n
              S == SelectSeq(stepLog, IsN) IN
          /\ Len(S) <= Len(StepOrder)
          /\ \A i \in 1..Len(S) : S[i][2] = StepOrder[i]
          /\ \A i \in 1..(Len(S) - 1) : S[i][3]
          /\ n <= Len(A) =>
                /\ Len(S) >= 1
                /\ A[n].Number = n
                /\ A[n].Success <=> (Len(S) = Len(StepOrder) /\ S[Len(S)][3])
                /\ A[n].Success => A[n].Error = NoError
                /\ ~A[n].Success =>
                      /\ ~S[Len(S)][3]
                      /\ A[n].Error # NoError
                      /\ FailedStepOf(A[n].Error) = S[Len(S)][2]

\* C8 happens: an attempt failed at the build step and the next attempt
\* has already completed a step
C8_Witness ==
    /\ Len(result.Attempts) >= 1
    /\ FailedStepOf(result.Attempts[1].Error) = "build"
    /\ \E i \in 1..Len(stepLog) : stepLog[i][1] = 2

-----------------------------------------------------------------------------
(* Claims on the Path Sandbox *)

\* where an absolute path leads when every symlink on it is followed, the
\* names below a missing or dangling entry kept as they are (realpath -m)
RECURSIVE Leads(_, _, _, _)
Leads(f, at, rest, hops) ==
    IF rest = <<>> THEN at
    ELSE LET q == Append(at, Head(rest))
             n == NodeAt(f, q) IN
         IF n.kind = "link" /\ hops > 0
         THEN Leads(f, <<>>, n.target \o Tail(rest), hops - 1)
         ELSE Leads(f, q, Tail(rest), hops)

\* the target of relative path segs, or one of its ancestor directories
\* below the root, leads through a symlink out of the root
EscapesBySymlink(f, segs) ==
    \E k \in 1..Len(segs) :
        LET q == Root \o SubSeq(segs, 1, k) IN
        /\ Leads(f, <<>>, q, MaxHops) # q
        /\ ~IsPathWithin(Leads(f, <<>>, q, MaxHops), Root)

\* C3: whatever symlinks are planted below the root, file_write never
\* creates or modifies a file whose real location is outside the root:
\* the call fails or the bytes land inside the root.
C3_WritesStayInsideRoot ==
    /\ fw.ok => IsPathWithin(fw.real, Root)
    /\ \A p \in Paths : ~IsPathWithin(p, Root) => fs[p] = InitialFS[p]

\* C4 (first clause): securePath fails for every relative path with a
\* ".." segment.
C4_DotDotRejected ==
    \A path \in RelPaths :
        (~path.abs /\ \E i \in 1..Len(path.segs) : path.segs[i] = "..")
            => SecurePath(fs, Root, path) = Fail

\* C4 (second clause): securePath fails for every relative path whose
\* target, or an ancestor directory of it, resolves through a symlink to a
\* location outside the canonical root.
C4_SymlinkEscapeRejected ==
    \A path \in RelPaths :
        (~path.abs /\ ".." \notin Range(path.segs) /\ EscapesBySymlink(fs, path.segs))
            => SecurePath(fs, Root, path) = Fail

-----------------------------------------------------------------------------
(* Claims on the Command Validator *)

\* the arguments of the command submitted, when its program is docker
IsDockerCall ==
    /\ Fields(shCmd) # <<>>
    /\ Base(Fields(shCmd)[1]) = <<"d", "o", "c", "k", "e", "r">>
DockerArgs == Tail(Fields(shCmd))

\* the call was refused by validation: it returned an error and nothing
\* was handed to sh
Refused == shPc = "returned" /\ shErr # NoError /\ procs = <<>>

\* the command passed validation and was handed to sh
Accepted == shPc = "returned" /\ procs = <<shCmd>>

\* the host source of each volume option among args, in any of the forms
\* -v spec, -vspec, -v=spec, --volume spec, --volume=spec
SourceOfSpec(spec) == Split(spec, ":")[1]
VolumeHostSources(args) ==
    {SourceOfSpec(args[i + 1]) : i \in {j \in 1..(Len(args) - 1) :
                                          args[j] \in {<<"-", "v">>, <<"-", "-", "v", "o", "l", "u", "m", "e">>}}}
    \cup {SourceOfSpec(AfterFirstEq(args[i])) : i \in {j \in 1..Len(args) :
                  HasPrefix(args[j], <<"-", "v", "=">>) \/ HasPrefix(args[j], <<"-", "-", "v", "o", "l", "u", "m", "e", "=">>)}}
    \cup {SourceOfSpec(TrimPrefix(args[i], <<"-", "v">>)) : i \in {j \in 1..Len(args) :
                  /\ HasPrefix(args[j], <<"-", "v">>)
                  /\ args[j] # <<"-", "v">>
                  /\ ~HasPrefix(args[j], <<"-", "v", "=">>)}}

\* a host source that is a sensitive root or lies below one
IsSensitive(src) == \E r \in SensitiveRoots : src = r \/ HasPrefix(src, r \o <<"/">>)

\* an absolute host source that is not the sandbox root nor below it
IsAbsOutside(src) ==
    /\ IsAbs(src)
    /\ ~HasPrefix(CleanAbsSegs(<<>>, Split(src, "/")),
                  CleanAbsSegs(<<>>, Split(ShellWorkDir, "/")))

\* a relative host source inside the sandbox root
IsRelInside(src) == ~IsAbs(src) /\ ~Contains(src, <<".", ".">>)

\* a command with nothing but its volume options for validation to refuse:
\* no blocked character, no denylisted flag, no --mount option
OnlyVolumesToCheck ==
    /\ \A i \in 1..Len(shCmd) : shCmd[i] \notin BlockedChars
    /\ \A i \in 1..Len(DockerArgs) :
          /\ \A d \in DangerousFlags : ~HasPrefix(DockerArgs[i], d)
          /\ ~HasPrefix(DockerArgs[i], <<"-", "-", "m", "o", "u", "n", "t">>)

\* C9: the volume options of a docker command are validated in any
\* position and form: the command is refused when any host source is a
\* sensitive root, lies below one, or is an absolute path outside the
\* sandbox root, and a command with nothing else to refuse is accepted
\* when every host source is a relative path inside the root.
C9_VolumeSourcesValidated ==
    (shPc = "returned" /\ IsDockerCall) =>
        /\ (\E src \in VolumeHostSources(DockerArgs) : IsSensitive(src) \/ IsAbsOutside(src))
               => Refused
        /\ ( /\ OnlyVolumesToCheck
             /\ \A src \in VolumeHostSources(DockerArgs) : IsRelInside(src) )
               => Accepted

\* C10: a docker command with an argument that begins with a flag of the
\* denylist is refused, wherever the argument stands and whatever the other
\* arguments are.
C10_DangerousFlagRefused ==
    ( /\ shPc = "returned"
      /\ IsDockerCall
      /\ \E i \in 1..Len(DockerArgs) : \E d \in DangerousFlags : HasPrefix(DockerArgs[i], d) )
        => Refused

\* a refused docker command whose denylisted flag, written with a value,
\* stands last, after a volume option that validation lets through
C10_Witness ==
    /\ Refused
    /\ IsDockerCall
    /\ Len(DockerArgs) = 3
    /\ DockerArgs[1] = <<"-", "v">>
    /\ DockerArgs[2] = <<"d", "a", "t", "a", ":", "/", "d">>
    /\ DockerArgs[3] = <<"-", "-", "c", "a", "p", "-", "a", "d", "d", "=", "A", "L", "L">>
    /\ shErr = <<"dangerous docker flag not allowed">>

\* the arguments of the command submitted, when its program is docker-compose
IsComposeCall ==
    /\ Fields(shCmd) # <<>>
    /\ Base(Fields(shCmd)[1]) = <<"d", "o", "c", "k", "e", "r", "-", "c", "o", "m", "p", "o", "s", "e">>

\* C11: every docker-compose command line that contains the sub-verb exec
\* or run is refused, whatever precedes or follows the sub-verb.
C11_ComposeExecRunRefused ==
    ( /\ shPc = "returned"
      /\ IsComposeCall
      /\ \E i \in 1..Len(DockerArgs) : DockerArgs[i] \in {<<"e", "x", "e", "c">>, <<"r", "u", "n">>} )
        => Refused

\* the two permitted program names
PermittedPrograms == {<<"d", "o", "c", "k", "e", "r">>, <<"d", "o", "c", "k", "e", "r", "-", "c", "o", "m", "p", "o", "s", "e">>}

\* C12 as stated: a command line whose first whitespace-delimited token is
\* not docker or docker-compose is refused, and so is an empty or
\* whitespace-only line.
C12_FirstTokenPermitted ==
    ( /\ shPc = "returned"
      /\ Fields(shCmd) = <<>> \/ Fields(shCmd)[1] \notin PermittedPrograms )
        => Refused

\* C12 amended: a command line is refused when the base name of its first
\* whitespace-delimited token (the text after its last "/") is not docker
\* or docker-compose, and so is an empty or whitespace-only line.
C12_FirstTokenBaseNamePermitted ==
    ( /\ shPc = "returned"
      /\ Fields(shCmd) = <<>> \/ Base(Fields(shCmd)[1]) \notin PermittedPrograms )
        => Refused

\* a refused command line whose program name only begins with docker
C12_Witness ==
    /\ Refused
    /\ Fields(shCmd) = <<<<"d", "o", "c", "k", "e", "r", "d">>, <<"p", "s">>>>
    /\ shErr = <<"only docker and docker-compose commands are allowed">>

\* C13 as stated: a command line that contains one of the blocked
\* characters at any position is refused, and no accepted command line
\* contains && or ||.
C13_BlockedCharAnywhereRefused ==
    /\ (shPc = "returned" /\ \E i \in 1..Len(shCmd) : shCmd[i] \in MetaChars) => Refused
    /\ Accepted => ~Contains(shCmd, <<"&", "&">>) /\ ~Contains(shCmd, <<"|", "|">>)

\* C13 amended: a command line that, once its leading and trailing
\* whitespace is removed, contains one of the blocked characters at any
\* position is refused, and no accepted command line contains && or ||.
C13_BlockedCharAfterTrimRefused ==
    /\ ( /\ shPc = "returned"
         /\ \E i \in 1..Len(TrimSpace(shCmd)) : TrimSpace(shCmd)[i] \in MetaChars )
           => Refused
    /\ Accepted => ~Contains(shCmd, <<"&", "&">>) /\ ~Contains(shCmd, <<"|", "|">>)

\* a refused docker command line with an ampersand inside its last word
C13_Witness ==
    /\ Refused
    /\ shCmd = <<"d", "o", "c", "k", "e", "r", " ", "p", "&", "s">>
    /\ shErr = <<"shell metacharacter not allowed">>

-----------------------------------------------------------------------------
(* Claims on the Tool Dispatcher and the Inspectors *)

\* the keywords of the instructions of a Dockerfile, a line that ends in a
\* backslash continuing on the next line, which is not read as an
\* instruction of its own; blank lines and comments are skipped
RECURSIVE InstructionKeywords(_, _, _)
InstructionKeywords(lines, i, continuing) ==
    IF i > Len(lines) THEN {}
    ELSE LET line == TrimSpace(lines[i])
             continues == HasSuffix(line, <<"\\">>) IN
         IF continuing THEN InstructionKeywords(lines, i + 1, continues)
         ELSE IF line = <<>> \/ HasPrefix(line, <<"#">>)
         THEN InstructionKeywords(lines, i + 1, FALSE)
         ELSE {ToUpper(Fields(line)[1])} \cup InstructionKeywords(lines, i + 1, continues)

\* the content has a FROM instruction
HasFromInstruction(content) ==
    <<"F", "R", "O", "M">> \in InstructionKeywords(Split(content, "\n"), 1, FALSE)

\* the path names a Dockerfile
IsDockerfilePath(path) ==
    path = <<"D", "o", "c", "k", "e", "r", "f", "i", "l", "e">> \/ HasSuffix(path, <<"/", "D", "o", "c", "k", "e", "r", "f", "i", "l", "e">>)

\* C14: with the Syntax inspector in the pipeline, Execute of a file_write
\* of a Dockerfile whose content has no FROM instruction returns an error
\* that names the rejecting inspector, the file_write tool is not invoked
\* and the working directory is unchanged.
C14_DockerfileWithoutFromRejected ==
    \A i \in 1..Len(tdLog) :
        LET c == tdLog[i] IN
        ( /\ c.tool = "file_write"
          /\ \E k \in 1..Len(c.pipeline) : c.pipeline[k] = "syntax"
          /\ IsDockerfilePath(c.args.path)
          /\ ~HasFromInstruction(c.args.content) )
            => /\ ~c.invoked
               /\ ~c.changed
               /\ Len(c.err) >= 3
               /\ c.err[1] = "inspector "
               /\ \E k \in 1..Len(c.pipeline) : c.pipeline[k] = c.err[2]

\* the inspectors of a list that reject a call
Rejecting(list, tool, args) == {k \in 1..Len(list) : Inspect(list[k], tool, args) # NoError}

\* C15: Execute invokes the inspectors in list order; when inspector k is
\* the first to reject, no later inspector and not the tool are invoked
\* and the error returned is the one of inspector k; the tool is invoked
\* only when every inspector approved.
C15_InspectorsInOrderFirstRejectionWins ==
    \A i \in 1..Len(tdLog) :
        LET c == tdLog[i]
            rejecting == Rejecting(c.pipeline, c.tool, c.args) IN
        c.tool \in RegisteredTools =>
            /\ c.inspectedBy = SubSeq(c.pipeline, 1, Len(c.inspectedBy))
            /\ \A k \in rejecting : Len(c.inspectedBy) <= k
            /\ c.invoked <=> rejecting = {}
            /\ c.invoked => c.inspectedBy = c.pipeline
            /\ ~c.invoked =>
                  /\ Len(c.inspectedBy) \in rejecting
                  /\ ~c.changed
                  /\ c.err = <<"inspector ", c.pipeline[Len(c.inspectedBy)],
                                " rejected tool call: ">>
                              \o Inspect(c.pipeline[Len(c.inspectedBy)], c.tool, c.args)

\* a call that two inspectors of the pipeline reject, with an approving
\* inspector before them: the first of the two is the last one invoked
C15_Witness ==
    \E i \in 1..Len(tdLog) :
        LET c == tdLog[i] IN
        /\ c.pipeline = <<"security", "content", "syntax">>
        /\ Rejecting(c.pipeline, c.tool, c.args) = {2, 3}
        /\ c.inspectedBy = <<"security", "content">>
        /\ ~c.invoked
        /\ c.err[2] = "content"

\* the threshold of the inspector: 3 when it is configured as 0
Threshold == IF repCfg = 0 THEN 3 ELSE repCfg

\* C16 as stated: whatever the threshold n, of a sequence of identical
\* calls on an empty history the first n are approved and call n + 1 is
\* rejected.
C16_FirstNApprovedNextRejected ==
    \A j \in 1..Len(repLog) :
        /\ j <= Threshold => repLog[j]
        /\ j = Threshold + 1 => ~repLog[j]

\* C16 amended: for a threshold n of at most 100 (the length the history
\* is cut at), of a sequence of identical calls on an empty history the
\* first n are approved and call n + 1 is rejected.
C16_FirstNApprovedNextRejectedUpToCap ==
    Threshold <= 100 =>
        \A j \in 1..Len(repLog) :
            /\ j <= Threshold => repLog[j]
            /\ j = Threshold + 1 => ~repLog[j]

\* threshold 3: the first three identical calls are approved, the fourth is
\* rejected
C16_Witness ==
    /\ repCfg = 3
    /\ repLog = <<TRUE, TRUE, TRUE, FALSE>>

\* the path securePath builds by joining the root and the cleaned request
RequestedPath(path) == JoinAbs(Root, CleanRel(<<>>, path.segs))

\* the entry the last name of the requested path names, its directory
\* resolved, is a symlink
LeafIsSymlink(f, path) ==
    LET full == RequestedPath(path)
        d == EvalSymlinks(f, Dir(full)) IN
    /\ ~path.abs
    /\ full # <<>>
    /\ d # Fail
    /\ NodeAt(f, Append(d, full[Len(full)])).kind = "link"

\* C17: file_read fails and returns no file content whenever the leaf of
\* the requested path is itself a symlink, wherever it points; content is
\* returned only for a leaf that is not a symlink and whose resolved
\* location is inside the root.
C17_SymlinkLeafNeverRead ==
    [][\A path \in RelPaths :
          UNCHANGED <<nonPathVars, fw>> /\ fr'.path = path /\ FileRead(path) =>
          /\ LeafIsSymlink(fs, path) =>
                /\ ~fr'.ok
                /\ fr'.content = NoContent
                /\ fr'.real = Fail
          /\ fr'.ok =>
                /\ ~LeafIsSymlink(fs, path)
                /\ EvalSymlinks(fs, RequestedPath(path)) # Fail
                /\ IsPathWithin(EvalSymlinks(fs, RequestedPath(path)), Root)
                /\ fr'.real = EvalSymlinks(fs, RequestedPath(path))
                /\ fr'.content = fs[fr'.real].data]_vars

\* file_read of b has failed, b being a symlink to the file a inside the
\* root
C17_Witness ==
    /\ fr.path = [abs |-> FALSE, segs |-> <<"b">>]
    /\ fs[<<"w", "b">>] = LinkNode(<<"w", "a">>)
    /\ fs[<<"w", "a">>].kind = "file"
    /\ fr.err = "symlinks are not allowed"
    /\ ~fr.ok
    /\ fr.content = NoContent

\* C18: a rejected call has no external effect: when validateShellCommand
\* rejects the command no subprocess is spawned; when securePath rejects
\* the path file_write creates no directory and writes no file and
\* file_read reads nothing; the filesystem and the spawned processes are
\* left as they were.
C18_RejectedCallHasNoEffect ==
    [][/\ \A path \in RelPaths :
              /\ UNCHANGED <<nonPathVars, fr>>
              /\ fw'.path = path
              /\ FileWrite(path)
              /\ SecurePath(fs, Root, path) = Fail
              =>
                  /\ fs' = fs
                  /\ procs' = procs
                  /\ ~fw'.ok
                  /\ fw'.real = Fail
       /\ \A path \in RelPaths :
              /\ UNCHANGED <<nonPathVars, fw>>
              /\ fr'.path = path
              /\ FileRead(path)
              /\ SecurePath(fs, Root, path) = Fail
              =>
                  /\ fs' = fs
                  /\ procs' = procs
                  /\ ~fr'.ok
                  /\ fr'.content = NoContent
                  /\ fr'.real = Fail
       /\ (/\ UNCHANGED nonShellVars
           /\ ShellExecute
           /\ ValidateShellCommand(shCmd) # NoError)
          =>
              /\ procs' = procs
              /\ fs' = fs
              /\ shErr' # NoError]_vars

\* a refused command, a file_write and a file_read of paths that leave the
\* root have all returned: nothing was spawned, nothing was written
C18_Witness ==
    /\ shPc = "returned"
    /\ ValidateShellCommand(shCmd) # NoError
    /\ shErr # NoError
    /\ procs = <<>>
    /\ fw.path = [abs |-> FALSE, segs |-> <<"..", "o", "b">>]
    /\ ~fw.ok
    /\ fr.path = [abs |-> TRUE, segs |-> <<"o", "b">>]
    /\ ~fr.ok
    /\ fs = InitialFS

\* C20: when Run returns, Result.Attempts holds exactly one record per
\* attempt that was started, in start order, the record at place i (from
\* 1) having Number i; Result.Success is true iff the last record succeeded;
\* every earlier record failed; FinalOutput is set, to the last record's
\* output, exactly when Success is true.
C20_ResultHoldsFullHistory ==
    pc = "done" =>
        LET A == result.Attempts IN
        /\ Len(A) = Len(genCalls)
        /\ \A i \in 1..Len(A) : A[i].Number = i
        /\ result.Success <=> (Len(A) > 0 /\ A[Len(A)].Success)
        /\ \A i \in 1..(Len(A) - 1) : ~A[i].Success
        /\ IF result.Success
           THEN /\ result.FinalOutput = A[Len(A)].Output
                /\ \E r \in Responses : result.FinalOutput = OutputOf(r)
           ELSE result.FinalOutput = NoOutput

\* Run has returned after two failed attempts and a third that succeeded
C20_Witness ==
    /\ pc = "done"
    /\ Len(result.Attempts) = 3
    /\ ~result.Attempts[1].Success
    /\ ~result.Attempts[2].Success
    /\ result.Attempts[3].Success
    /\ result.Attempts[3].Number = 3
    /\ result.Success
    /\ result.FinalOutput = result.Attempts[3].Output

\* C19: emitting a notification never blocks the loop: with a slow or
\* absent observer the queued notifications never exceed the capacity of
\* the channel (100), a notification emitted on a full channel is dropped,
\* and Run still goes through its steps and returns its Result.
C19_EmitNeverBlocks ==
    /\ [](Len(events) <= 100)
    /\ [][(RunStep /\ Len(events) = 100) => events' = events]_vars
    /\ <>(pc = "done")

\* Run has returned on a channel that was full all along: its complete
\* notification was dropped
C19_Witness ==
    /\ pc = "done"
    /\ result.Attempts # <<>>
    /\ Len(events) = 100
    /\ events = Backlog(25, maxAttempts)

\* the commands docker_run has issued, by name
IssuedAt(name) == {i \in 1..Len(dr.cmds) : dr.cmds[i].cmd = name}

\* docker_run has started a test container
ContainerStarted == \E i \in IssuedAt("run -d") : dr.cmds[i].ok

\* C21: once docker_run has started a test container, it issues a removal
\* of that container before it returns, on every path: status polled as
\* running, status polled as not running (after the logs are captured),
\* status poll failed.
C21_CleanupBeforeReturn ==
    (dr.pc = "returned" /\ ContainerStarted) =>
        /\ \E i \in IssuedAt("rm") \cup IssuedAt("rm -f") :
              \A j \in IssuedAt("run -d") : j < i
        /\ (dr.poll = "ok" /\ dr.status # "running") =>
              \E i \in IssuedAt("rm -f") : \E j \in IssuedAt("logs") : j < i

\* docker_run has returned after it found the container exited, captured
\* the logs and removed the container
C21_Witness ==
    /\ dr.pc = "returned"
    /\ dr.status = "exited"
    /\ Len(dr.cmds) = 4
    /\ dr.cmds[1] = [cmd |-> "run -d", spawned |-> TRUE, ok |-> TRUE]
    /\ dr.cmds[3].cmd = "logs"
    /\ dr.cmds[4] = [cmd |-> "rm -f", spawned |-> TRUE, ok |-> TRUE]

\* C27: docker_run returns success only if its status poll completed and
\* reported the container as running; when the status poll itself fails
\* the tool does not report success.
C27_SuccessOnlyWhenPolledRunning ==
    (dr.pc = "returned" /\ dr.err = "" ) =>
        (dr.poll = "ok" /\ dr.status = "running")

\* the host namespaces a container can be made to share
HostNamespaces == { <<"p", "i", "d">>, <<"n", "e", "t", "w", "o", "r", "k">>, <<"u", "s", "e", "r", "n", "s">>, <<"u", "t", "s">>, <<"i", "p", "c">> }

\* args ask for a namespace of the host, the value attached with = or given
\* as the following token
RequestsHostNamespace(args) ==
    \E i \in 1..Len(args) : \E n \in HostNamespaces :
        \/ args[i] = <<"-", "-">> \o n \o <<"=", "h", "o", "s", "t">>
        \/ /\ args[i] = <<"-", "-">> \o n
           /\ i < Len(args)
           /\ args[i + 1] = <<"h", "o", "s", "t">>

\* C22: a docker command that asks for a host namespace (pid, network,
\* userns, uts or ipc set to host) is refused, whether the value is attached
\* to the flag with = or given as the following token.
C22_HostNamespaceRefused ==
    (shPc = "returned" /\ IsDockerCall /\ RequestsHostNamespace(DockerArgs))
        => Refused

\* the --mount specifications among args, attached or as the following token
MountSpecs(args) ==
    {AfterFirstEq(args[i]) : i \in {j \in 1..Len(args) : HasPrefix(args[j], <<"-", "-", "m", "o", "u", "n", "t", "=">>)}}
    \cup {args[i + 1] : i \in {j \in 1..(Len(args) - 1) : args[j] = <<"-", "-", "m", "o", "u", "n", "t">>}}

\* the host-side sources of a bind specification
BindSources(spec) ==
    LET fields == Split(spec, ",") IN
    IF \E k \in 1..Len(fields) : fields[k] = <<"t", "y", "p", "e", "=", "b", "i", "n", "d">>
    THEN {AfterFirstEq(fields[k]) : k \in {m \in 1..Len(fields) : HasPrefix(fields[m], <<"s", "o", "u", "r", "c", "e", "=">>)}}
    ELSE {}

\* a host source with a parent-directory segment
HasTraversal(src) == \E k \in 1..Len(Split(src, "/")) : Split(src, "/")[k] = <<".", ".">>

\* C23: a docker command with a --mount bind specification is refused
\* whenever the host-side source is an absolute path outside the sandbox
\* root, has a parent-directory segment, or is a sensitive root or lies
\* below one, both when the specification is attached with = and when it is
\* the following token.
C23_BindMountSourcesValidated ==
    ( /\ shPc = "returned"
      /\ IsDockerCall
      /\ \E spec \in MountSpecs(DockerArgs) : \E src \in BindSources(spec) :
            IsAbsOutside(src) \/ HasTraversal(src) \/ IsSensitive(src) )
        => Refused

\* the content has a FROM instruction and the keyword of each of its
\* instructions is a recognized one
WellFormedDockerfile(content) ==
    /\ HasFromInstruction(content)
    /\ InstructionKeywords(Split(content, "\n"), 1, FALSE) \subseteq ValidInstructions

\* C24: for a file_write to a path named Dockerfile, the Syntax inspector
\* approves the call iff the content has at least one FROM instruction and
\* the keyword of every instruction is a recognized one, an instruction
\* whose line ends in a backslash continuing on the following lines, which
\* are not parsed as instructions.
C24_SyntaxApprovesIffWellFormed ==
    \A i \in 1..Len(tdLog) :
        LET c == tdLog[i] IN
        ( /\ c.tool = "file_write"
          /\ c.pipeline = <<"syntax">>
          /\ IsDockerfilePath(c.args.path) )
            => (c.invoked <=> WellFormedDockerfile(c.args.content))

\* what the instructions of call n add to those of call n - 1
AddedInstructions(n) ==
    SubSeq(genCalls[n], Len(genCalls[n - 1]) + 1, Len(genCalls[n]))

\* C25: attempt 1 receives exactly the caller's initial instructions; for
\* every attempt n > 1 the instructions given to the generator are those of
\* attempt n - 1 followed by the error text of attempt n - 1, verbatim, so
\* that they carry the errors of attempts 1..n-1 in order; the failure of
\* the final attempt appends nothing.  Each call extends the previous one
\* and the extension holds the previous attempt's error, which places the
\* errors in the order of the attempts.
C25_InstructionsAccumulateErrors ==
    /\ Len(genCalls) >= 1 => genCalls[1] = InitialInstructions
    /\ \A n \in 2..Len(genCalls) :
          /\ Len(result.Attempts) >= n - 1
          /\ HasPrefix(genCalls[n], genCalls[n - 1])
          /\ result.Attempts[n - 1].Error # NoError
          /\ Contains(AddedInstructions(n), result.Attempts[n - 1].Error)
    /\ (pc = "done" /\ Len(genCalls) >= 1) => instructions = genCalls[Len(genCalls)]

\* Run has returned after three failed attempts with three different
\* errors: the third call carried the first two, the third error was not
\* appended
C25_Witness ==
    /\ pc = "done"
    /\ ~result.Success
    /\ Len(genCalls) = 3
    /\ maxAttempts = 3
    /\ result.Attempts[1].Error # result.Attempts[2].Error
    /\ result.Attempts[3].Error \notin {result.Attempts[1].Error, result.Attempts[2].Error}
    /\ instructions = genCalls[3]
    /\ ~Contains(instructions, result.Attempts[3].Error)

\* the notification types of EventType (part_019:815-825)
EventTypes ==
    {"start", "analyzing", "generating", "building", "testing", "fixing",
     "success", "error", "complete"}

Emitted(type) == \E i \in 1..Len(events) : events[i] = type

\* C26: each of the nine notification types is emitted in some run; in
\* particular a run in which an attempt fails emits an error notification,
\* and every run emits start first and complete last.  Stated on a run that
\* has returned: only declared types were emitted, start is the first,
\* complete the last, and a failed attempt has left an error notification.
C26_FailedAttemptEmitsError ==
    pc = "done" =>
        /\ \A i \in 1..Len(events) : events[i] \in EventTypes
        /\ events[1] = "start"
        /\ events[Len(events)] = "complete"
        /\ (\E k \in 1..Len(result.Attempts) : ~result.Attempts[k].Success)
              => Emitted("error")

\* C28: in every attempt that reaches the build step, the Dockerfile in the
\* working directory when the build runs has exactly the content generated
\* in that attempt, never that of an earlier attempt or of a file that was
\* there before the run, also when the generator returns an empty Dockerfile.
C28_BuildUsesGeneratedDockerfile ==
    pc = "build" => workDir["Dockerfile"] = cur.Output.Dockerfile

\* C29: once the Repetition inspector has rejected a call, every later
\* identical call is rejected too, whatever and however many other calls
\* are made in between; cutting the history never admits the call again.
C29_RejectedStaysRejected ==
    \A i, j \in 2..Len(repLog) :
        (i < j /\ repLog[i] = 0) => repLog[j] = 0

\* C30: Execute returns Success = true only if every step it executed ended
\* successfully, after at most max(1, retries) tries; a step that still
\* fails never leaves the recipe reported successful, whatever its on_error.
C30_SuccessOnlyIfEveryStepSucceeded ==
    (rc.pc = "returned" /\ rc.result.Success) =>
        \A k \in 1..Len(rc.result.Steps) :
            /\ rc.result.Steps[k].Success
            /\ rc.calls[k].tries <= IF rc.steps[rc.calls[k].step].Retries > 1
                                    THEN rc.steps[rc.calls[k].step].Retries ELSE 1

=============================================================================
